---- MODULE Spec2Model ----
(***************************************************************************)
(* Model of vibe-rss.                                                      *)
(*                                                                         *)
(* The proxy: the Express route handler GET /api/rss (routes/rss.js).      *)
(* Each request is one run of the async handler: it reads req.query.url,   *)
(* validates it, awaits one axios.get and writes one response.  Requests   *)
(* overlap while they await the fetch.                                     *)
(*                                                                         *)
(* The viewer (public/app.js): the text utilities escapeHtml, stripHtml    *)
(* and formatDate, the rendering of a parsed feed document into the page,  *)
(* fetchRssFeed, which overlaps with itself while it awaits the network,   *)
(* and the saved feeds, kept in localStorage.                              *)
(*                                                                         *)
(* Strings that the code inspects character by character (the url) are     *)
(* sequences of one-character strings; strings that it only copies are     *)
(* TLA+ strings.                                                           *)
(***************************************************************************)
EXTENDS Naturals, Sequences, FiniteSets, TLC

VARIABLES pc, query, axiosCalls, settled, res

proxyVars == <<pc, query, axiosCalls, settled, res>>

(***************************************************************************)
(* Bounds of the model.                                                    *)
(***************************************************************************)
\* number of requests the server receives in one behaviour
MaxReq == 2
\* the url values sent are all strings over UrlAlphabet of at most this
\* length, together with UrlSamples
MaxUrlLen == 1

Requests == 1..MaxReq

(***************************************************************************)
(* Characters of the URL parser.                                           *)
(***************************************************************************)
AsciiAlpha ==
    {"a","b","c","d","e","f","g","h","i","j","k","l","m",
     "n","o","p","q","r","s","t","u","v","w","x","y","z"}

AsciiDigit == {"0","1","2","3","4","5","6","7","8","9"}

\* leading and trailing C0 control or space is stripped by the parser
C0ControlOrSpace == {" ", "\t", "\n", "\r"}

\* ASCII tab or newline is removed wherever it occurs
AsciiTabOrNewline == {"\t", "\n", "\r"}

SchemeChar == AsciiAlpha \cup AsciiDigit \cup {"+", "-", "."}

SpecialSchemes ==
    { <<"h","t","t","p">>, <<"h","t","t","p","s">>, <<"f","t","p">>,
      <<"w","s">>, <<"w","s","s">>, <<"f","i","l","e">> }

FileScheme == <<"f","i","l","e">>

HttpSchemes == { <<"h","t","t","p">>, <<"h","t","t","p","s">> }

ForbiddenHostCodePoint ==
    {" ", "\t", "\n", "\r", "#", "/", ":", "<", ">", "?", "@", "[", "\\", "]", "^", "|"}

ForbiddenDomainCodePoint == ForbiddenHostCodePoint \cup {"%"}

AuthorityEnd == {"/", "\\", "?", "#"}

(***************************************************************************)
(* Sequence helpers of the URL parser.                                     *)
(***************************************************************************)
RECURSIVE StripLeading(_)
StripLeading(s) ==
    IF s # <<>> /\ Head(s) \in C0ControlOrSpace THEN StripLeading(Tail(s)) ELSE s

RECURSIVE StripTrailing(_)
StripTrailing(s) ==
    IF s # <<>> /\ s[Len(s)] \in C0ControlOrSpace
    THEN StripTrailing(SubSeq(s, 1, Len(s) - 1))
    ELSE s

IsNotTabOrNewline(c) == c \notin AsciiTabOrNewline

\* the parser's preprocessing of its input
Preprocess(s) == SelectSeq(StripTrailing(StripLeading(s)), IsNotTabOrNewline)

\* the index of the first character of s that is in set, Len(s) + 1 if none
RECURSIVE FirstIn(_, _, _)
FirstIn(s, set, i) ==
    IF i > Len(s) THEN i
    ELSE IF s[i] \in set THEN i
    ELSE FirstIn(s, set, i + 1)

\* the index of the first character of s that is not in set, Len(s) + 1 if none
RECURSIVE FirstNotIn(_, _, _)
FirstNotIn(s, set, i) ==
    IF i > Len(s) THEN i
    ELSE IF s[i] \notin set THEN i
    ELSE FirstNotIn(s, set, i + 1)

\* the index of the last occurrence of c in s, 0 if none
RECURSIVE LastIndexOf(_, _, _)
LastIndexOf(s, c, i) ==
    IF i = 0 THEN 0
    ELSE IF s[i] = c THEN i
    ELSE LastIndexOf(s, c, i - 1)

Drop(s, n) == SubSeq(s, n + 1, Len(s))

Chars(s) == { s[i] : i \in 1..Len(s) }

RECURSIVE PortValue(_)
PortValue(s) ==
    IF s = <<>> THEN 0
    ELSE 10 * PortValue(SubSeq(s, 1, Len(s) - 1))
         + (CHOOSE d \in 0..9 :
               <<"0","1","2","3","4","5","6","7","8","9">>[d + 1] = s[Len(s)])

\* the scheme of a preprocessed input: the characters before the first ':',
\* when the input starts with a letter and only scheme characters precede
\* the ':'; the empty sequence when the input has no scheme
SchemeOf(t) ==
    LET i == FirstNotIn(t, SchemeChar, 1)
    IN  IF t # <<>> /\ Head(t) \in AsciiAlpha /\ i <= Len(t) /\ t[i] = ":"
        THEN SubSeq(t, 1, i - 1)
        ELSE <<>>

\* the authority of what follows the slashes: up to the first / \ ? #
AuthorityOf(r) == SubSeq(r, 1, FirstIn(r, AuthorityEnd, 1) - 1)

\* host and port of an authority, after its credentials
HostPortOf(auth) == Drop(auth, LastIndexOf(auth, "@", Len(auth)))

HostOf(hp) ==
    LET c == LastIndexOf(hp, ":", Len(hp))
    IN  IF c = 0 THEN hp ELSE SubSeq(hp, 1, c - 1)

PortOf(hp) ==
    LET c == LastIndexOf(hp, ":", Len(hp))
    IN  IF c = 0 THEN <<>> ELSE Drop(hp, c)

PortOk(port) ==
    /\ Chars(port) \subseteq AsciiDigit
    /\ Len(port) <= 5
    /\ PortValue(port) <= 65535

\* an authority parses when its host holds no forbidden code point and its
\* port is a number; a special scheme needs a host
AuthorityOk(auth, special, needsHost) ==
    LET hp == HostPortOf(auth)
        host == HostOf(hp)
    IN  /\ needsHost => host # <<>>
        /\ Chars(host) \cap
             (IF special THEN ForbiddenDomainCodePoint ELSE ForbiddenHostCodePoint) = {}
        /\ PortOk(PortOf(hp))

\* new URL(url, base) with a base: an input with no scheme is resolved
\* against the base and parses
UrlParsesWithBase(s) ==
    LET t == Preprocess(s)
        scheme == SchemeOf(t)
    IN  \/ scheme = <<>>
        \/ scheme \notin SpecialSchemes
        \/ Drop(t, Len(scheme) + 1) # <<>>

\* new URL(url) with no base: TRUE when the constructor returns, FALSE when
\* it throws
UrlParses(s) ==
    LET t == Preprocess(s)
        scheme == SchemeOf(t)
        rest == Drop(t, Len(scheme) + 1)
        slashes == FirstNotIn(rest, {"/", "\\"}, 1) - 1
    IN  IF scheme = <<>> THEN FALSE
        ELSE IF scheme = FileScheme
        THEN IF slashes >= 2
             THEN Chars(AuthorityOf(Drop(rest, 2))) \cap ForbiddenDomainCodePoint = {}
             ELSE TRUE
        ELSE IF scheme \in SpecialSchemes
        THEN AuthorityOk(AuthorityOf(Drop(rest, slashes)), TRUE, TRUE)
        ELSE IF Len(rest) >= 2 /\ rest[1] = "/" /\ rest[2] = "/"
        THEN AuthorityOk(SubSeq(rest, 3, FirstIn(rest, {"/", "?", "#"}, 3) - 1),
                         FALSE, FALSE)
        ELSE TRUE

(***************************************************************************)
(* The url values a client sends: req.query.url is undefined when the      *)
(* parameter is missing, a string otherwise.                               *)
(***************************************************************************)
UrlAlphabet == {"w", ":", " "}

\* "http://a"
HttpUrl == <<"h","t","t","p",":","/","/","a">>
\* "ftp://a"
FtpUrl == <<"f","t","p",":","/","/","a">>
\* "http://" has no host
NoHostUrl == <<"h","t","t","p",":","/","/">>
\* "a.b/f" has no scheme
NoSchemeUrl == <<"a",".","b","/","f">>
\* " http://a" parses, the parser strips the space
PaddedUrl == <<" ","h","t","t","p",":","/","/","a">>
\* "w:" has a scheme that is not special, and an empty opaque path
OpaqueUrl == <<"w",":">>
\* a space and a tab
BlankUrl == <<" ","\t">>

UrlSamples == {HttpUrl, FtpUrl, NoHostUrl, NoSchemeUrl, PaddedUrl, OpaqueUrl, BlankUrl}

UrlStrings == UNION { [1..n -> UrlAlphabet] : n \in 0..MaxUrlLen } \cup UrlSamples

Undefined == [given |-> FALSE, text |-> <<>>]

QueryValues == {Undefined} \cup { [given |-> TRUE, text |-> s] : s \in UrlStrings }

\* JavaScript's !url for undefined or a string
Falsy(url) == ~url.given \/ url.text = <<>>

\* String.prototype.trim
Trim(s) == StripTrailing(StripLeading(s))

\* step 1 applied to the trimmed url
ValidateTrimmed(url) ==
    IF ~url.given \/ Trim(url.text) = <<>> THEN "missing"
    ELSE IF ~UrlParses(url.text) THEN "invalid"
    ELSE "ok"

\* step 2 left out
ValidateNoFormat(url) ==
    IF Falsy(url) THEN "missing" ELSE "ok"

\* step 2 accepting http and https only
ValidateHttpOnly(url) ==
    IF Falsy(url) THEN "missing"
    ELSE IF ~UrlParses(url.text) \/ SchemeOf(Preprocess(url.text)) \notin HttpSchemes
    THEN "invalid"
    ELSE "ok"

\* the two validation steps, in the order of the code: "missing" and
\* "invalid" are the two early returns, "ok" falls through to the fetch
Validate(url) ==
    IF Falsy(url) THEN "missing"
    ELSE IF ~UrlParses(url.text) THEN "invalid"
    ELSE "ok"

(***************************************************************************)
(* What axios.get settles with.  A resolved promise carries the upstream   *)
(* response (its data and the content type it was served with); a rejected *)
(* one carries an error whose response and request properties may each be  *)
(* present or absent.                                                      *)
(***************************************************************************)
WellFormedXml == "<rss><channel></channel></rss>"
MalformedXml == "<rss><channel>"

UpstreamResponses ==
    { [data |-> WellFormedXml, contentType |-> "application/rss+xml"],
      [data |-> MalformedXml, contentType |-> "text/html"],
      [data |-> WellFormedXml, contentType |-> "text/html"] }

NoUpstream == [data |-> "", contentType |-> ""]

ErrorResponses ==
    { [status |-> 404, statusText |-> "Not Found"],
      [status |-> 503, statusText |-> "Service Unavailable"] }

NoErrorResponse == [status |-> 0, statusText |-> ""]

Errors ==
    { [hasResponse |-> TRUE, response |-> e, hasRequest |-> q] :
          e \in ErrorResponses, q \in BOOLEAN }
    \cup { [hasResponse |-> FALSE, response |-> NoErrorResponse, hasRequest |-> q] :
          q \in BOOLEAN }

NoError == [hasResponse |-> FALSE, response |-> NoErrorResponse, hasRequest |-> FALSE]

Unsettled == [state |-> "pending", response |-> NoUpstream, error |-> NoError]
Fulfilled(r) == [state |-> "fulfilled", response |-> r, error |-> NoError]
Rejected(e) == [state |-> "rejected", response |-> NoUpstream, error |-> e]

(***************************************************************************)
(* The responses of the handler.                                           *)
(***************************************************************************)
NoBody == [kind |-> "none"]

\* res before the handler has written to it
Unsent == [sent |-> FALSE, status |-> 200, contentType |-> "", body |-> NoBody]

\* res.status(code).json(body)
Json(code, body) ==
    [sent |-> TRUE, status |-> code, contentType |-> "application/json", body |-> body]

MissingUrlBody ==
    [kind |-> "json", error |-> "Bad Request",
     message |-> "Missing required query parameter: url"]

InvalidUrlBody ==
    [kind |-> "json", error |-> "Bad Request", message |-> "Invalid URL format"]

UnavailableBody ==
    [kind |-> "json", error |-> "Service Unavailable",
     message |-> "Unable to reach the RSS feed URL. Please check the URL and try again."]

InternalBody ==
    [kind |-> "json", error |-> "Internal Server Error",
     message |-> "An error occurred while processing the request"]

FetchFailedBody(response) ==
    [kind |-> "json", error |-> "Feed Fetch Failed",
     message |-> "Unable to fetch RSS feed: " \o response.statusText,
     statusCode |-> response.status]

\* the catch block testing error.request before error.response
ErrorResponseRequestFirst(error) ==
    IF error.hasRequest THEN Json(503, UnavailableBody)
    ELSE IF error.hasResponse
    THEN Json(error.response.status, FetchFailedBody(error.response))
    ELSE Json(500, InternalBody)

\* the catch block adding a statusCode to the unreachable body
ErrorResponseStatusCode(error) ==
    IF error.hasResponse THEN Json(error.response.status, FetchFailedBody(error.response))
    ELSE IF error.hasRequest
    THEN Json(503, [kind |-> "json", error |-> UnavailableBody.error,
                    message |-> UnavailableBody.message, statusCode |-> 503])
    ELSE Json(500, InternalBody)

\* the catch block without its else branch: nothing is sent
ErrorResponseNoElse(error) ==
    IF error.hasResponse THEN Json(error.response.status, FetchFailedBody(error.response))
    ELSE IF error.hasRequest THEN Json(503, UnavailableBody)
    ELSE Unsent

\* the catch block
ErrorResponse(error) ==
    IF error.hasResponse THEN Json(error.response.status, FetchFailedBody(error.response))
    ELSE IF error.hasRequest THEN Json(503, UnavailableBody)
    ELSE Json(500, InternalBody)

\* res.send(response.data) with the content type of the upstream
SuccessResponseUpstreamType(response) ==
    [sent |-> TRUE, status |-> 200, contentType |-> response.contentType,
     body |-> [kind |-> "raw", data |-> response.data]]

\* res.set('Content-Type', 'application/xml'); res.send(response.data)
SuccessResponse(response) ==
    [sent |-> TRUE, status |-> 200, contentType |-> "application/xml",
     body |-> [kind |-> "raw", data |-> response.data]]

Timeout == 10000
MaxRedirects == 5

\* the arguments of axios.get
AxiosGet(url) ==
    [url |-> url.text, userAgent |-> "RSS-Fetch-API/1.0",
     timeout |-> Timeout, maxRedirects |-> MaxRedirects]

(***************************************************************************)
(* The handler.  Handle runs it from its start to its first suspension or  *)
(* return: the two validation steps, then the call of axios.get.           *)
(***************************************************************************)
ProxyInit ==
    /\ pc = [r \in Requests |-> "idle"]
    /\ query = [r \in Requests |-> Undefined]
    /\ axiosCalls = [r \in Requests |-> <<>>]
    /\ settled = [r \in Requests |-> Unsettled]
    /\ res = [r \in Requests |-> Unsent]

\* requests are numbered in the order they arrive
Arrives(r) == pc[r] = "idle" /\ \A p \in Requests : p < r => pc[p] # "idle"

Handle(r, url) ==
    /\ Arrives(r)
    /\ query' = [query EXCEPT ![r] = url]
    /\ IF Validate(url) = "missing"
       THEN /\ res' = [res EXCEPT ![r] = Json(400, MissingUrlBody)]
            /\ pc' = [pc EXCEPT ![r] = "done"]
            /\ UNCHANGED axiosCalls
       ELSE IF Validate(url) = "invalid"
       THEN /\ res' = [res EXCEPT ![r] = Json(400, InvalidUrlBody)]
            /\ pc' = [pc EXCEPT ![r] = "done"]
            /\ UNCHANGED axiosCalls
       ELSE /\ axiosCalls' = [axiosCalls EXCEPT ![r] = Append(@, AxiosGet(url))]
            /\ pc' = [pc EXCEPT ![r] = "await"]
            /\ UNCHANGED res
    /\ UNCHANGED settled

\* a handler that keeps the responses it sent and answers a url it has
\* served before from them
ResolveCached(r, response) ==
    LET hits == { p \in Requests : /\ p # r
                                   /\ pc[p] = "done"
                                   /\ query[p] = query[r]
                                   /\ settled[p].state = "fulfilled" }
    IN  /\ pc[r] = "await"
        /\ settled' = [settled EXCEPT ![r] = Fulfilled(response)]
        /\ res' = [res EXCEPT ![r] =
                      IF hits = {} THEN SuccessResponse(response)
                      ELSE res[CHOOSE p \in hits : TRUE]]
        /\ pc' = [pc EXCEPT ![r] = "done"]
        /\ UNCHANGED <<query, axiosCalls>>

\* axios.get resolves: the handler resumes after the await
Resolve(r, response) ==
    /\ pc[r] = "await"
    /\ settled' = [settled EXCEPT ![r] = Fulfilled(response)]
    /\ res' = [res EXCEPT ![r] = SuccessResponse(response)]
    /\ pc' = [pc EXCEPT ![r] = "done"]
    /\ UNCHANGED <<query, axiosCalls>>

\* a handler that calls axios.get once more when no response arrived
RejectRetry(r, error) ==
    /\ pc[r] = "await"
    /\ IF ~error.hasResponse /\ Len(axiosCalls[r]) < 2
       THEN /\ axiosCalls' = [axiosCalls EXCEPT ![r] = Append(@, AxiosGet(query[r]))]
            /\ UNCHANGED <<pc, query, settled, res>>
       ELSE /\ settled' = [settled EXCEPT ![r] = Rejected(error)]
            /\ res' = [res EXCEPT ![r] = ErrorResponse(error)]
            /\ pc' = [pc EXCEPT ![r] = "done"]
            /\ UNCHANGED <<query, axiosCalls>>

\* axios.get rejects: the handler resumes in its catch block
Reject(r, error) ==
    /\ pc[r] = "await"
    /\ settled' = [settled EXCEPT ![r] = Rejected(error)]
    /\ res' = [res EXCEPT ![r] = ErrorResponse(error)]
    /\ pc' = [pc EXCEPT ![r] = "done"]
    /\ UNCHANGED <<query, axiosCalls>>

ProxyNext ==
    \/ \E r \in Requests, url \in QueryValues : Handle(r, url)
    \/ \E r \in Requests, response \in UpstreamResponses : Resolve(r, response)
    \/ \E r \in Requests, error \in Errors : Reject(r, error)

(***************************************************************************)
(* Properties of the proxy handler.                                        *)
(***************************************************************************)
Received(r) == pc[r] # "idle"

FetchFailed(r) == settled[r].state = "rejected"

FetchSucceeded(r) == settled[r].state = "fulfilled"

WhiteSpace == {" ", "\t", "\n", "\r"}

\* the url of request r is a string of white space only, the empty one included
BlankText(r) == query[r].given /\ Chars(query[r].text) \subseteq WhiteSpace

\* the url of request r passes both validation steps
PassesValidation(r) ==
    query[r].given /\ query[r].text # <<>> /\ UrlParses(query[r].text)

IsUpstreamError(x) ==
    /\ x.sent /\ x.contentType = "application/json"
    /\ x.body.kind = "json" /\ x.body.error = "Feed Fetch Failed"

IsUnavailable(x) ==
    /\ x.sent /\ x.contentType = "application/json" /\ x.status = 503
    /\ x.body.kind = "json" /\ x.body.error = "Service Unavailable"

IsInternal(x) ==
    /\ x.sent /\ x.contentType = "application/json" /\ x.status = 500
    /\ x.body.kind = "json" /\ x.body.error = "Internal Server Error"

IsBadRequest(x, message) ==
    x = [sent |-> TRUE, status |-> 400, contentType |-> "application/json",
         body |-> [kind |-> "json", error |-> "Bad Request", message |-> message]]

\* C1: a request whose fetch fails with an error carrying an upstream
\* response (status s, status text t), with or without a request object, is
\* answered with status s and the JSON body {error: 'Feed Fetch Failed',
\* message: 'Unable to fetch RSS feed: ' + t, statusCode: s}.
C1_UpstreamStatusRelayed ==
    \A r \in Requests :
        FetchFailed(r) /\ settled[r].error.hasResponse =>
            LET up == settled[r].error.response
            IN  res[r] =
                  [sent |-> TRUE, status |-> up.status,
                   contentType |-> "application/json",
                   body |-> [kind |-> "json", error |-> "Feed Fetch Failed",
                             message |-> "Unable to fetch RSS feed: " \o up.statusText,
                             statusCode |-> up.status]]

C1_Witness ==
    \E r \in Requests :
        /\ FetchFailed(r)
        /\ settled[r].error.hasResponse /\ settled[r].error.hasRequest
        /\ res[r].status = 404
        /\ res[r].body.message = "Unable to fetch RSS feed: Not Found"

\* C2: a request whose fetch fails with an error that has a request object
\* and no response is answered with status 503 and the JSON body {error:
\* 'Service Unavailable', message: 'Unable to reach the RSS feed URL. Please
\* check the URL and try again.'}, which has no statusCode field.
C2_UnreachableIs503 ==
    \A r \in Requests :
        FetchFailed(r) /\ ~settled[r].error.hasResponse /\ settled[r].error.hasRequest =>
            res[r] =
              [sent |-> TRUE, status |-> 503, contentType |-> "application/json",
               body |-> [kind |-> "json", error |-> "Service Unavailable",
                         message |-> "Unable to reach the RSS feed URL. Please check the URL and try again."]]

C2_Witness ==
    \E r \in Requests :
        /\ FetchFailed(r)
        /\ ~settled[r].error.hasResponse /\ settled[r].error.hasRequest
        /\ res[r].status = 503
        /\ DOMAIN res[r].body = {"kind", "error", "message"}

\* C3: a request whose fetch fails with an error that has neither a response
\* nor a request object is answered with status 500 and the JSON body
\* {error: 'Internal Server Error', message: 'An error occurred while
\* processing the request'}; every failed request is answered with exactly
\* one of the three error responses.
C3_ClassificationTotal ==
    \A r \in Requests :
        FetchFailed(r) =>
            /\ pc[r] = "done"
            /\ Cardinality({ k \in 1..3 :
                   \/ k = 1 /\ IsUpstreamError(res[r])
                   \/ k = 2 /\ IsUnavailable(res[r])
                   \/ k = 3 /\ IsInternal(res[r]) }) = 1
            /\ ~settled[r].error.hasResponse /\ ~settled[r].error.hasRequest =>
                   res[r] =
                     [sent |-> TRUE, status |-> 500, contentType |-> "application/json",
                      body |-> [kind |-> "json", error |-> "Internal Server Error",
                                message |-> "An error occurred while processing the request"]]

C3_Witness ==
    \E r \in Requests :
        /\ FetchFailed(r)
        /\ ~settled[r].error.hasResponse /\ ~settled[r].error.hasRequest
        /\ IsInternal(res[r])

\* C4: a request whose url is missing, empty or white space only is answered
\* with status 400 (Bad Request), and no outbound call is made for it.
C4_BlankUrlIs400 ==
    \A r \in Requests :
        Received(r) /\ (~query[r].given \/ BlankText(r)) =>
            /\ pc[r] = "done"
            /\ res[r].sent /\ res[r].status = 400
            /\ res[r].body.kind = "json" /\ res[r].body.error = "Bad Request"
            /\ axiosCalls[r] = <<>>

C4_Witness ==
    \E r \in Requests :
        /\ Received(r) /\ query[r].given /\ query[r].text = BlankUrl
        /\ res[r].status = 400 /\ axiosCalls[r] = <<>>

\* C5 as stated: a request whose url is missing or empty after trimming (a
\* url of white space only included) is answered with the message 'Missing
\* required query parameter: url'.
C5_TrimmedMissing ==
    \A r \in Requests :
        Received(r) /\ (~query[r].given \/ Trim(query[r].text) = <<>>) =>
            IsBadRequest(res[r], "Missing required query parameter: url")

\* C5, amended: step 1 is applied to the url as received, not trimmed.  A
\* request whose url is missing or the empty string is answered with the
\* message 'Missing required query parameter: url', although the empty
\* string fails the format check too; a url of white space only that is not
\* empty passes step 1 and is answered by step 2 with 'Invalid URL format'.
C5_UntrimmedMissing ==
    \A r \in Requests :
        Received(r) =>
            /\ ~query[r].given \/ query[r].text = <<>> =>
                   IsBadRequest(res[r], "Missing required query parameter: url")
            /\ BlankText(r) /\ query[r].text # <<>> =>
                   IsBadRequest(res[r], "Invalid URL format")

C5_Witness ==
    \E r, p \in Requests :
        /\ Received(r) /\ query[r].given /\ query[r].text = <<" ">>
        /\ IsBadRequest(res[r], "Invalid URL format")
        /\ Received(p) /\ query[p].given /\ query[p].text = <<>>
        /\ IsBadRequest(res[p], "Missing required query parameter: url")

\* C6 as stated: every string that fails absolute-URL parsing is answered
\* with status 400 and the body {error: 'Bad Request', message: 'Invalid URL
\* format'}, and no outbound call is made.
C6_UnparsableIsInvalidFormat ==
    \A r \in Requests :
        Received(r) /\ query[r].given /\ ~UrlParses(query[r].text) =>
            /\ IsBadRequest(res[r], "Invalid URL format")
            /\ axiosCalls[r] = <<>>

\* C6, amended: every string other than the empty string that fails
\* absolute-URL parsing is answered with status 400 and the body {error:
\* 'Bad Request', message: 'Invalid URL format'}, and no outbound call is
\* made (the empty string is answered by step 1).
C6_NonEmptyUnparsableIsInvalidFormat ==
    \A r \in Requests :
        Received(r) /\ query[r].given /\ query[r].text # <<>>
                    /\ ~UrlParses(query[r].text) =>
            /\ pc[r] = "done"
            /\ IsBadRequest(res[r], "Invalid URL format")
            /\ axiosCalls[r] = <<>>

C6_Witness ==
    \E r, p \in Requests :
        /\ query[r].given /\ query[r].text = NoSchemeUrl
        /\ IsBadRequest(res[r], "Invalid URL format")
        /\ query[p].given /\ query[p].text = NoHostUrl
        /\ IsBadRequest(res[p], "Invalid URL format")

\* C7: a request whose fetch succeeds with body b is answered with status
\* 200, content type application/xml and the body b unchanged, whatever
\* content type the upstream served and whether or not b is well-formed.
C7_BodyRelayedAsXml ==
    \A r \in Requests :
        FetchSucceeded(r) =>
            res[r] =
              [sent |-> TRUE, status |-> 200, contentType |-> "application/xml",
               body |-> [kind |-> "raw", data |-> settled[r].response.data]]

C7_Witness ==
    \E r \in Requests :
        /\ FetchSucceeded(r)
        /\ settled[r].response.data = MalformedXml
        /\ settled[r].response.contentType = "text/html"
        /\ res[r].sent /\ res[r].body.data = MalformedXml

\* C8: a request that passes validation issues exactly one outbound GET, to
\* the url as given, with User-Agent 'RSS-Fetch-API/1.0', timeout 10000 and
\* maxRedirects 5; a request that fails validation issues none; after a
\* fetch failure the request is answered and no second call is issued.
C8_OneOutboundCall ==
    \A r \in Requests :
        /\ Received(r) =>
               axiosCalls[r] =
                 IF PassesValidation(r)
                 THEN << [url |-> query[r].text, userAgent |-> "RSS-Fetch-API/1.0",
                          timeout |-> 10000, maxRedirects |-> 5] >>
                 ELSE <<>>
        /\ ~Received(r) => axiosCalls[r] = <<>>
        /\ FetchFailed(r) => pc[r] = "done" /\ res[r].sent /\ Len(axiosCalls[r]) = 1

C8_Witness ==
    \E r, p \in Requests :
        /\ FetchFailed(r) /\ ~settled[r].error.hasResponse
        /\ pc[r] = "done" /\ Len(axiosCalls[r]) = 1
        /\ Received(p) /\ ~PassesValidation(p) /\ axiosCalls[p] = <<>>

\* C9: a url that parses with a scheme other than http and https passes both
\* validation steps and reaches the fetch; it is never answered with 400,
\* and its failure is answered by the classification of fetch failures (503
\* when the error has a request and no response).
C9_NonHttpSchemeReachesFetch ==
    \A r \in Requests :
        /\ Received(r) /\ PassesValidation(r)
        /\ SchemeOf(Preprocess(query[r].text)) \notin HttpSchemes
        =>  /\ Len(axiosCalls[r]) = 1
            /\ axiosCalls[r][1].url = query[r].text
            /\ pc[r] = "done" => settled[r].state # "pending" /\ res[r].status # 400
            /\ FetchFailed(r) =>
                   IsUpstreamError(res[r]) \/ IsUnavailable(res[r]) \/ IsInternal(res[r])
            /\ FetchFailed(r) /\ settled[r].error.hasRequest
                              /\ ~settled[r].error.hasResponse =>
                   IsUnavailable(res[r])

C9_Witness ==
    \E r \in Requests :
        /\ query[r].given /\ query[r].text = FtpUrl
        /\ FetchFailed(r)
        /\ settled[r].error.hasRequest /\ ~settled[r].error.hasResponse
        /\ res[r].status = 503

\* the response of a handler that has served no request before, to a url
\* and the outcome of its fetch
FirstResponse(url, outcome) ==
    IF Validate(url) = "missing" THEN Json(400, MissingUrlBody)
    ELSE IF Validate(url) = "invalid" THEN Json(400, InvalidUrlBody)
    ELSE IF outcome.state = "fulfilled" THEN SuccessResponse(outcome.response)
    ELSE ErrorResponse(outcome.error)

\* C10: the handler keeps no state across requests: the response to a
\* request is the one a handler that served nothing before gives to the same
\* url and upstream outcome, so two requests with the same url and the same
\* upstream outcome receive the same response, whatever was served, and
\* whatever succeeded or failed, before each of them.
C10_NoStateAcrossRequests ==
    /\ \A r \in Requests :
           pc[r] = "done" => res[r] = FirstResponse(query[r], settled[r])
    /\ \A r, p \in Requests :
           /\ pc[r] = "done" /\ pc[p] = "done"
           /\ query[r] = query[p] /\ settled[r] = settled[p]
           => res[r] = res[p]

C10_Witness ==
    \E r, p \in Requests :
        /\ r < p
        /\ pc[r] = "done" /\ pc[p] = "done"
        /\ query[r] = query[p] /\ settled[r] = settled[p]
        /\ FetchSucceeded(p)
        /\ res[r] = res[p] /\ res[p].status = 200

(***************************************************************************)
(* The text utilities of the viewer.  A text is a sequence of characters.  *)
(***************************************************************************)
VARIABLES called, argText, argMax, returned

textVars == <<called, argText, argMax, returned>>

\* the texts passed to the utilities are all strings over TextAlphabet of at
\* most this length, together with TextSamples and LongTexts
MaxTextLen == 3
\* stripHtml is called with every maxLength up to this one, and with BodyLimit
MaxLimit == 2

\* the maxLength the renderer passes, and the default of the parameter
BodyLimit == 300

Ellipsis == <<".", ".", ".">>

Repeat(c, n) == [i \in 1..n |-> c]

\* the serialisation of one character of a text node
EscapeChar(c) ==
    IF c = "&" THEN <<"&","a","m","p",";">>
    ELSE IF c = "<" THEN <<"&","l","t",";">>
    ELSE IF c = ">" THEN <<"&","g","t",";">>
    ELSE <<c>>

\* an escaping that encodes the quote characters too
EscapeCharQuotes(c) ==
    IF c = "\"" THEN <<"&","q","u","o","t",";">>
    ELSE IF c = "'" THEN <<"&","#","3","9",";">>
    ELSE EscapeChar(c)

\* the serialisation of the characters lo..hi of text, one after the other
RECURSIVE EscapeRange(_, _, _)
EscapeRange(text, lo, hi) ==
    IF lo > hi THEN <<>>
    ELSE IF lo = hi THEN EscapeChar(text[lo])
    ELSE LET mid == (lo + hi) \div 2
         IN  EscapeRange(text, lo, mid) \o EscapeRange(text, mid + 1, hi)

\* div.textContent = text; return div.innerHTML
escapeHtml(text) == EscapeRange(text, 1, Len(text))

\* the character references the fragment parser decodes in the texts of the
\* model, with or without their semicolon
NamedRefs ==
    { [name |-> <<"&","a","m","p">>, char |-> "&"],
      [name |-> <<"&","l","t">>, char |-> "<"],
      [name |-> <<"&","g","t">>, char |-> ">"],
      [name |-> <<"&","q","u","o","t">>, char |-> "\""] }

IsPrefix(p, t) == Len(p) <= Len(t) /\ SubSeq(t, 1, Len(p)) = p

\* the states of the tokenizer that div.innerHTML = html runs: the data
\* state, the tag open and end tag open states, the states inside a tag or a
\* bogus comment (everything up to the next '>' is dropped), and the
\* character reference state with its temporary buffer
DataState == [mode |-> "data", buf |-> <<>>]
TagOpenState == [mode |-> "tagOpen", buf |-> <<>>]
EndTagOpenState == [mode |-> "endTagOpen", buf |-> <<>>]
InTagState == [mode |-> "tag", buf |-> <<>>]
CharRefState(buf) == [mode |-> "charRef", buf |-> buf]

\* the characters the tokenizer emits when it leaves the character reference
\* state with this buffer: the character a complete name stands for, else
\* the buffer itself
FlushCharRef(buf) ==
    LET refs == { n \in NamedRefs : n.name = buf }
    IN  IF refs = {} THEN buf ELSE <<(CHOOSE n \in refs : TRUE).char>>

DataStep(c) ==
    IF c = "<" THEN [st |-> TagOpenState, out |-> <<>>]
    ELSE IF c = "&" THEN [st |-> CharRefState(<<"&">>), out |-> <<>>]
    ELSE [st |-> DataState, out |-> <<c>>]

\* the text the tokenizer emits before c is consumed again in the data state
Reconsume(text, c) ==
    [st |-> DataStep(c).st, out |-> text \o DataStep(c).out]

\* one character consumed in state q: the next state and the text emitted.
\* (The texts of the model hold no white space and no '=', so no tag has an
\* attribute value that could hold a '>', no '!' or '?', so a '<' opens
\* nothing but a tag, and they name no element whose content is raw text.)
TokenizerStep(q, c) ==
    IF q.mode = "data" THEN DataStep(c)
    ELSE IF q.mode = "tagOpen"
    THEN IF c \in AsciiAlpha THEN [st |-> InTagState, out |-> <<>>]
         ELSE IF c = "/" THEN [st |-> EndTagOpenState, out |-> <<>>]
         ELSE Reconsume(<<"<">>, c)
    ELSE IF q.mode = "endTagOpen"
    THEN IF c = ">" THEN [st |-> DataState, out |-> <<>>]
         ELSE [st |-> InTagState, out |-> <<>>]
    ELSE IF q.mode = "tag"
    THEN IF c = ">" THEN [st |-> DataState, out |-> <<>>]
         ELSE [st |-> InTagState, out |-> <<>>]
    ELSE IF \E n \in NamedRefs : IsPrefix(q.buf \o <<c>>, n.name)
    THEN [st |-> CharRefState(q.buf \o <<c>>), out |-> <<>>]
    ELSE IF c = ";" /\ \E n \in NamedRefs : n.name = q.buf
    THEN [st |-> DataState, out |-> FlushCharRef(q.buf)]
    ELSE Reconsume(FlushCharRef(q.buf), c)

\* the text emitted at the end of the input in state q
TokenizerEnd(q) ==
    IF q.mode = "tagOpen" THEN <<"<">>
    ELSE IF q.mode = "endTagOpen" THEN <<"<", "/">>
    ELSE IF q.mode = "charRef" THEN FlushCharRef(q.buf)
    ELSE <<>>

\* the characters lo..hi of s consumed one after the other from state q
RECURSIVE Tokenize(_, _, _, _)
Tokenize(s, lo, hi, q) ==
    IF lo > hi THEN [st |-> q, out |-> <<>>]
    ELSE IF lo = hi THEN TokenizerStep(q, s[lo])
    ELSE LET mid == (lo + hi) \div 2
             left == Tokenize(s, lo, mid, q)
             right == Tokenize(s, mid + 1, hi, left.st)
         IN  [out |-> left.out \o right.out, st |-> right.st]

\* div.innerHTML = html; div.textContent: the text nodes of the fragment
PlainText(html) ==
    LET run == Tokenize(html, 1, Len(html), DataState)
    IN  run.out \o TokenizerEnd(run.st)

\* stripHtml escaping before it measures and cuts
stripHtmlEscapeFirst(html, maxLength) ==
    LET text == escapeHtml(PlainText(html))
    IN  IF Len(text) > maxLength
        THEN SubSeq(text, 1, maxLength) \o Ellipsis
        ELSE text

\* stripHtml cutting one character late
stripHtmlOffByOne(html, maxLength) ==
    LET text == PlainText(html)
    IN  escapeHtml(IF Len(text) > maxLength
                   THEN SubSeq(text, 1, maxLength + 1) \o Ellipsis
                   ELSE text)

stripHtml(html, maxLength) ==
    LET text == PlainText(html)
    IN  escapeHtml(IF Len(text) > maxLength
                   THEN SubSeq(text, 1, maxLength) \o Ellipsis
                   ELSE text)

TextAlphabet == {"a", "<", ">", "&", "\""}

ShortTexts == UNION { [1..n -> TextAlphabet] : n \in 0..MaxTextLen }

TextSamples ==
    { <<"&","a","m","p",";">>,
      <<"&","l","t",";","a","&","g","t",";">>,
      <<"<","a",">","a","&","a","<","/","a",">">>,
      <<"a","'","a">> }

LongTexts ==
    { Repeat("a", BodyLimit),
      Repeat("a", BodyLimit + 1),
      Repeat("&", BodyLimit + 1),
      Repeat("a", BodyLimit) \o <<"<">>,
      <<"<">> \o Repeat("a", BodyLimit),
      <<"<","a",">">> \o Repeat("a", BodyLimit + 1) \o <<"<","/","a",">">> }

Texts == ShortTexts \cup TextSamples

\* "2024-01-15T12:00Z", and what formatDate makes of it and of a string that
\* is no date
ValidDate == <<"2","0","2","4","-","0","1","-","1","5","T","1","2",":","0","0","Z">>
FormattedDate == <<"J","a","n"," ","1","5",","," ","2","0","2","4">>
InvalidDate == <<"I","n","v","a","l","i","d"," ","D","a","t","e">>

DigitChars == <<"0", "1", "2", "3", "4", "5", "6", "7", "8", "9">>

IsDigit(c) == \E n \in 1..10 : DigitChars[n] = c

DigitValue(c) == (CHOOSE n \in 1..10 : DigitChars[n] = c) - 1

\* the number written by the digits s[lo..hi]
RECURSIVE NumberAt(_, _, _)
NumberAt(s, lo, hi) ==
    IF hi < lo THEN 0 ELSE NumberAt(s, lo, hi - 1) * 10 + DigitValue(s[hi])

\* the decimal digits of n, without leading zeros
RECURSIVE Decimal(_)
Decimal(n) ==
    IF n < 10 THEN <<DigitChars[n + 1]>>
    ELSE Decimal(n \div 10) \o <<DigitChars[(n % 10) + 1]>>

DaysIn(year, month) ==
    IF month = 2
    THEN IF year % 4 = 0 /\ (year % 100 # 0 \/ year % 400 = 0) THEN 29 ELSE 28
    ELSE IF month \in {4, 6, 9, 11} THEN 30 ELSE 31

\* the time value of a string that is no date
NaN == [valid |-> FALSE, year |-> 0, month |-> 0, day |-> 0]

\* new Date(dateString) for the date-time form YYYY-MM-DDT12:00Z, whose
\* day is the same in every time zone the page runs in; a string of
\* another shape, or with a month or day out of range, has the time value
\* NaN and no exception is thrown
NewDate(dateString) ==
    IF /\ Len(dateString) = 17
       /\ \A i \in {1, 2, 3, 4, 6, 7, 9, 10} : IsDigit(dateString[i])
       /\ dateString[5] = "-" /\ dateString[8] = "-"
       /\ SubSeq(dateString, 11, 17) = <<"T", "1", "2", ":", "0", "0", "Z">>
    THEN LET year == NumberAt(dateString, 1, 4)
             month == NumberAt(dateString, 6, 7)
             day == NumberAt(dateString, 9, 10)
         IN  IF month \in 1..12 /\ day \in 1..DaysIn(year, month)
             THEN [valid |-> TRUE, year |-> year, month |-> month, day |-> day]
             ELSE NaN
    ELSE NaN

MonthNames ==
    << <<"J","a","n">>, <<"F","e","b">>, <<"M","a","r">>, <<"A","p","r">>,
       <<"M","a","y">>, <<"J","u","n">>, <<"J","u","l">>, <<"A","u","g">>,
       <<"S","e","p">>, <<"O","c","t">>, <<"N","o","v">>, <<"D","e","c">> >>

\* date.toLocaleDateString('en-US', {year: 'numeric', month: 'short',
\* day: 'numeric'})
toLocaleDateString(date) ==
    IF date.valid
    THEN MonthNames[date.month] \o <<" ">> \o Decimal(date.day)
             \o <<",", " ">> \o Decimal(date.year)
    ELSE InvalidDate

\* formatDate with the string handed back when it is no date, as its catch
\* block would do if the constructor threw
formatDateFallback(dateString) ==
    IF NewDate(dateString).valid THEN toLocaleDateString(NewDate(dateString))
    ELSE dateString

\* neither the constructor nor toLocaleDateString throws, so that the catch
\* block is never entered
formatDate(dateString) == toLocaleDateString(NewDate(dateString))

\* "2024-02-29T12:00Z", the last day of February in a leap year
LeapDate == <<"2","0","2","4","-","0","2","-","2","9","T","1","2",":","0","0","Z">>
\* "2024-13-15T12:00Z", with a month that does not exist
NoMonthDate == <<"2","0","2","4","-","1","3","-","1","5","T","1","2",":","0","0","Z">>

DateSamples == { ValidDate, LeapDate, NoMonthDate }

\* no utility has been called
TextIdle ==
    /\ called = "none"
    /\ argText = <<>>
    /\ argMax = 0
    /\ returned = <<>>

\* the arguments of the call to come: any text with a small maxLength, or
\* any text, the long ones included, with the maxLength of the renderer
TextInit ==
    /\ called = "none"
    /\ returned = <<>>
    /\ \/ argText \in Texts \cup DateSamples /\ argMax \in 0..MaxLimit
       \/ argText \in Texts \cup LongTexts /\ argMax = BodyLimit

EscapeHtmlCall ==
    /\ called = "none"
    /\ called' = "escapeHtml"
    /\ returned' = escapeHtml(argText)
    /\ UNCHANGED <<argText, argMax>>

StripHtmlCall ==
    /\ called = "none"
    /\ called' = "stripHtml"
    /\ returned' = stripHtml(argText, argMax)
    /\ UNCHANGED <<argText, argMax>>

FormatDateCall ==
    /\ called = "none"
    /\ called' = "formatDate"
    /\ returned' = formatDate(argText)
    /\ UNCHANGED <<argText, argMax>>

(***************************************************************************)
(* Properties of the text utilities.                                       *)
(***************************************************************************)
EndsWithEllipsis(t) ==
    Len(t) >= 3 /\ SubSeq(t, Len(t) - 2, Len(t)) = Ellipsis

\* C18: stripHtml(html, limit) measures the plain text before any escaping:
\* when it is longer than limit the result is the escape of exactly its
\* first limit characters followed by '...', and when it is not longer (a
\* length equal to limit included) the result is the escape of the whole
\* plain text, with no ellipsis added.
C18_TruncateThenEscape ==
    called = "stripHtml" =>
        LET plain == PlainText(argText)
        IN  /\ Len(plain) > argMax =>
                   returned = escapeHtml(SubSeq(plain, 1, argMax)) \o Ellipsis
            /\ Len(plain) <= argMax => returned = escapeHtml(plain)

C18_Witness ==
    /\ called = "stripHtml"
    /\ argMax = 2
    /\ argText = <<"&", "<", ">">>
    /\ returned = <<"&","a","m","p",";","&","l","t",";",".",".",".">>

DateParses(dateString) == NewDate(dateString).valid

\* C22: formatDate(s) is '<abbreviated month> <day>, <year>' when s parses as
\* a date, and the string s itself, unchanged, when s does not parse as a
\* date.
C22_FallsBackToString ==
    called = "formatDate" =>
        IF DateParses(argText)
        THEN \E m \in 1..12, d \in 1..31 :
                 returned = MonthNames[m] \o <<" ">> \o Decimal(d) \o <<",", " ">>
                                \o SubSeq(argText, 1, 4)
        ELSE returned = argText

(***************************************************************************)
(* The parsed feed document.  A node is an element with its name, its href *)
(* attribute, the text it holds itself and its child elements.             *)
(***************************************************************************)
\* the number of items or entries of the generated feeds
MaxItems == 2

Null == <<>>

Elem(name, kids) ==
    [name |-> name, href |-> Undefined, text |-> <<>>, kids |-> kids]

Leaf(name, text) ==
    [name |-> name, href |-> Undefined, text |-> text, kids |-> <<>>]

\* <link href="...">text</link>
LinkElem(href, text) ==
    [name |-> "link", href |-> [given |-> TRUE, text |-> href],
     text |-> text, kids |-> <<>>]

\* the document node, parent of the root element
Document(root) == Elem("#document", <<root>>)

\* the root element of a document
RootOf(doc) == doc.kids[1]

\* the descendants of n in document order, from its i-th child on
RECURSIVE DescendantsFrom(_, _)
DescendantsFrom(n, i) ==
    IF i > Len(n.kids) THEN <<>>
    ELSE <<n.kids[i]>> \o DescendantsFrom(n.kids[i], 1) \o DescendantsFrom(n, i + 1)

Descendants(n) == DescendantsFrom(n, 1)

HasName(name, seq) ==
    LET Named(e) == e.name = name IN SelectSeq(seq, Named)

\* the first element of seq alone, Null when there is none
FirstOf(seq) == IF seq = <<>> THEN Null ELSE <<seq[1]>>

\* node.querySelectorAll(name): every descendant of that name, in document order
querySelectorAll(n, name) == HasName(name, Descendants(n))

\* a lookup that sees the children of n only
querySelectorChild(n, name) == FirstOf(HasName(name, n.kids))

\* node.querySelector(name): the first descendant of that name, Null if none
querySelector(n, name) == FirstOf(querySelectorAll(n, name))

\* node.textContent: the text of the node and of its descendants
RECURSIVE TextFrom(_, _)
TextFrom(n, i) ==
    IF i > Len(n.kids) THEN <<>>
    ELSE n.kids[i].text \o TextFrom(n.kids[i], 1) \o TextFrom(n, i + 1)

textContent(n) == n.text \o TextFrom(n, 1)

\* found?.textContent
TextOf(found) ==
    IF found = Null THEN Undefined
    ELSE [given |-> TRUE, text |-> textContent(found[1])]

\* found?.getAttribute('href')
HrefOf(found) == IF found = Null THEN Undefined ELSE found[1].href

\* value || fallback
Or(value, fallback) == IF Falsy(value) THEN fallback ELSE value.text

(***************************************************************************)
(* The feeds.                                                              *)
(***************************************************************************)
FeedTitleText == <<"F">>
SubtitleText == <<"s", "&">>
EntryTitleText == <<"t", "<">>
LinkUrl == <<"u">>
QuotedUrl == <<"u", "\"", "o">>
OtherText == <<"x">>
MarkupText == <<"<", "i", ">">>
BodyHtml == <<"<", "b", ">", "d">>
ContentHtml == <<"c", "&", "g", "t", ";">>

ChannelHeads ==
    { <<>>,
      <<Leaf("title", FeedTitleText)>>,
      <<Leaf("title", <<>>)>>,
      <<Leaf("description", SubtitleText)>>,
      <<Leaf("title", FeedTitleText), Leaf("description", <<>>)>>,
      <<Leaf("title", FeedTitleText), Leaf("link", LinkUrl),
        Leaf("description", SubtitleText)>> }

FeedHeads ==
    { <<>>,
      <<Leaf("title", FeedTitleText)>>,
      <<Leaf("title", <<>>)>>,
      <<Leaf("subtitle", SubtitleText)>>,
      <<Leaf("title", FeedTitleText), Leaf("subtitle", <<>>)>>,
      <<Leaf("title", FeedTitleText), LinkElem(LinkUrl, <<>>),
        Leaf("subtitle", SubtitleText)>> }

RssItemSamples ==
    { Elem("item", <<>>),
      Elem("item", <<Leaf("title", EntryTitleText), Leaf("link", LinkUrl),
                     Leaf("description", BodyHtml), Leaf("pubDate", ValidDate)>>),
      Elem("item", <<Leaf("title", <<>>), Leaf("link", <<>>),
                     Leaf("description", <<>>), Leaf("pubDate", <<>>)>>),
      Elem("item", <<Leaf("link", QuotedUrl), Leaf("description", ContentHtml),
                     Leaf("pubDate", MarkupText)>>) }

AtomEntrySamples ==
    { Elem("entry", <<>>),
      Elem("entry", <<Leaf("title", EntryTitleText), LinkElem(LinkUrl, <<>>),
                      Leaf("summary", BodyHtml), Leaf("updated", ValidDate)>>),
      Elem("entry", <<Leaf("title", <<>>), LinkElem(<<>>, OtherText),
                      Leaf("summary", <<>>), Leaf("content", ContentHtml),
                      Leaf("updated", <<>>)>>),
      Elem("entry", <<Leaf("link", OtherText), Leaf("content", ContentHtml)>>),
      Elem("entry", <<LinkElem(QuotedUrl, OtherText), Leaf("summary", BodyHtml),
                      Leaf("content", ContentHtml), Leaf("updated", MarkupText)>>) }

SeqsUpTo(set, n) == UNION { [1..k -> set] : k \in 0..n }

\* <rss><channel> head, items </channel></rss>
RssDoc(head, items) == Document(Elem("rss", <<Elem("channel", head \o items)>>))

\* <feed> head, entries </feed>
AtomDoc(head, entries) == Document(Elem("feed", head \o entries))

RssDocs ==
    { RssDoc(head, items) :
        head \in ChannelHeads, items \in SeqsUpTo(RssItemSamples, MaxItems) }

AtomDocs ==
    { AtomDoc(head, entries) :
        head \in FeedHeads, entries \in SeqsUpTo(AtomEntrySamples, MaxItems) }

\* an Atom feed with an entry that embeds a channel element: <feed>
\* <title>F</title> <entry> <title>t&lt;</title> <channel> <title>x</title>
\* </channel> </entry> </feed>
AtomWithNestedChannel ==
    Document(Elem("feed",
        <<Leaf("title", FeedTitleText),
          Elem("entry", <<Leaf("title", EntryTitleText),
                          Elem("channel", <<Leaf("title", OtherText)>>)>>)>>))

\* a document that is no feed but holds a channel element deep inside
PageWithNestedChannel ==
    Document(Elem("html",
        <<Elem("body", <<Elem("div", <<Elem("channel", <<Leaf("title", OtherText)>>)>>)>>)>>))

\* documents without any channel or feed element
OtherDocs ==
    { Document(Elem("html", <<>>)),
      Document(Elem("rss", <<>>)),
      Document(Elem("rss", <<Elem("item", <<Leaf("title", EntryTitleText)>>)>>)) }

\* what DOMParser returns for XML that is not well formed: the error marker
\* is the root, or stands in what was parsed before the error
ErrorDocs ==
    { Document(Elem("parsererror", <<>>)),
      Document(Elem("rss", <<Elem("parsererror", <<>>),
                             Elem("channel", <<Leaf("title", FeedTitleText)>>)>>)),
      Document(Elem("feed", <<Leaf("title", FeedTitleText),
                              Elem("parsererror", <<>>)>>)) }

WellFormedDocs ==
    RssDocs \cup AtomDocs \cup OtherDocs
    \cup {AtomWithNestedChannel, PageWithNestedChannel}

(***************************************************************************)
(* The page: the loading indicator, the error slot and the results panel   *)
(* with the feed title, the stats and the items.  What innerHTML receives  *)
(* is kept as the strings the template inserts, slot by slot.              *)
(***************************************************************************)
VARIABLES loadingHidden, errorHidden, errorText, resultsHidden,
          feedTitle, feedStats, feedItems

pageVars == <<loadingHidden, errorHidden, errorText, resultsHidden,
              feedTitle, feedStats, feedItems>>

\* a part of a template that is left out
Omitted == [given |-> FALSE, text |-> <<>>]

Inserted(markup) == [given |-> TRUE, text |-> markup]

NoStats == [count |-> 0, label |-> "", subtitle |-> Omitted]

RssFallbackTitle == <<"R","S","S"," ","F","e","e","d">>
AtomFallbackTitle == <<"A","t","o","m"," ","F","e","e","d">>
Untitled == <<"U","n","t","i","t","l","e","d">>
NoLink == <<"#">>

UnrecognizedMessage ==
    "Unrecognized feed format. Please ensure the URL is a valid RSS or Atom feed."

\* the page as index.html gives it
PageInit ==
    /\ loadingHidden = TRUE
    /\ errorHidden = TRUE
    /\ errorText = ""
    /\ resultsHidden = TRUE
    /\ feedTitle = <<>>
    /\ feedStats = NoStats
    /\ feedItems = <<>>

showError(message) ==
    /\ errorText' = message
    /\ errorHidden' = FALSE

\* the stats with another label
RssStatsEntries(channel) ==
    LET description == TextOf(querySelector(channel, "description"))
    IN  [count |-> Len(querySelectorAll(channel, "item")),
         label |-> "Entries",
         subtitle |-> IF Falsy(description) THEN Omitted
                      ELSE Inserted(escapeHtml(description.text))]

RssStats(channel) ==
    LET description == TextOf(querySelector(channel, "description"))
    IN  [count |-> Len(querySelectorAll(channel, "item")),
         label |-> "Items",
         subtitle |-> IF Falsy(description) THEN Omitted
                      ELSE Inserted(escapeHtml(description.text))]

\* the item with its fields inserted without their fallbacks
RssItemNoFallback(item) ==
    LET itemDescription == Or(TextOf(querySelector(item, "description")), <<>>)
        pubDate == TextOf(querySelector(item, "pubDate"))
    IN  [href |-> escapeHtml(TextOf(querySelector(item, "link")).text),
         title |-> escapeHtml(TextOf(querySelector(item, "title")).text),
         date |-> Inserted(formatDate(pubDate.text)),
         description |-> Inserted(stripHtml(itemDescription, BodyLimit))]

\* one <div class="feed-item"> of displayRss
RssItem(item) ==
    LET itemTitle == Or(TextOf(querySelector(item, "title")), Untitled)
        itemLink == Or(TextOf(querySelector(item, "link")), NoLink)
        itemDescription == Or(TextOf(querySelector(item, "description")), <<>>)
        pubDate == TextOf(querySelector(item, "pubDate"))
    IN  [href |-> escapeHtml(itemLink),
         title |-> escapeHtml(itemTitle),
         date |-> IF Falsy(pubDate) THEN Omitted
                  ELSE Inserted(formatDate(pubDate.text)),
         description |-> IF itemDescription = <<>> THEN Omitted
                         ELSE Inserted(stripHtml(itemDescription, BodyLimit))]

displayRss(channel) ==
    LET title == Or(TextOf(querySelector(channel, "title")), RssFallbackTitle)
        items == querySelectorAll(channel, "item")
    IN  /\ feedTitle' = title
        /\ feedStats' = RssStats(channel)
        /\ feedItems' = [i \in 1..Len(items) |-> RssItem(items[i])]
        /\ resultsHidden' = FALSE
        /\ UNCHANGED <<errorHidden, errorText>>

AtomStats(feed) ==
    LET subtitle == TextOf(querySelector(feed, "subtitle"))
    IN  [count |-> Len(querySelectorAll(feed, "entry")),
         label |-> "Entries",
         subtitle |-> IF Falsy(subtitle) THEN Omitted
                      ELSE Inserted(escapeHtml(subtitle.text))]

\* the entry with the text of its link element as its link
AtomEntryLinkText(entry) ==
    LET entryTitle == Or(TextOf(querySelector(entry, "title")), Untitled)
        entryLink == Or(TextOf(querySelector(entry, "link")), NoLink)
        summary == Or(TextOf(querySelector(entry, "summary")),
                      Or(TextOf(querySelector(entry, "content")), <<>>))
        updated == TextOf(querySelector(entry, "updated"))
    IN  [href |-> escapeHtml(entryLink),
         title |-> escapeHtml(entryTitle),
         date |-> IF Falsy(updated) THEN Omitted
                  ELSE Inserted(formatDate(updated.text)),
         description |-> IF summary = <<>> THEN Omitted
                         ELSE Inserted(stripHtml(summary, BodyLimit))]

\* one <div class="feed-item"> of displayAtom
AtomEntry(entry) ==
    LET entryTitle == Or(TextOf(querySelector(entry, "title")), Untitled)
        entryLink == Or(HrefOf(querySelector(entry, "link")), NoLink)
        summary == Or(TextOf(querySelector(entry, "summary")),
                      Or(TextOf(querySelector(entry, "content")), <<>>))
        updated == TextOf(querySelector(entry, "updated"))
    IN  [href |-> escapeHtml(entryLink),
         title |-> escapeHtml(entryTitle),
         date |-> IF Falsy(updated) THEN Omitted
                  ELSE Inserted(formatDate(updated.text)),
         description |-> IF summary = <<>> THEN Omitted
                         ELSE Inserted(stripHtml(summary, BodyLimit))]

displayAtom(feed) ==
    LET title == Or(TextOf(querySelector(feed, "title")), AtomFallbackTitle)
        entries == querySelectorAll(feed, "entry")
    IN  /\ feedTitle' = title
        /\ feedStats' = AtomStats(feed)
        /\ feedItems' = [i \in 1..Len(entries) |-> AtomEntry(entries[i])]
        /\ resultsHidden' = FALSE
        /\ UNCHANGED <<errorHidden, errorText>>

displayFeed(doc) ==
    LET channel == querySelector(doc, "channel")
        feedEl == querySelector(doc, "feed")
    IN  IF channel # Null THEN displayRss(channel[1])
        ELSE IF feedEl # Null THEN displayAtom(feedEl[1])
        ELSE /\ showError(UnrecognizedMessage)
             /\ UNCHANGED <<resultsHidden, feedTitle, feedStats, feedItems>>

(***************************************************************************)
(* displayFeed on its own: a parsed document without error marker, and the *)
(* page as fetchRssFeed has reset it, showing nothing or holding what an   *)
(* earlier fetch rendered.                                                 *)
(***************************************************************************)
VARIABLES xmlDoc, displayed

renderVars == <<xmlDoc, displayed>>

\* what an earlier fetch left in the results panel
EarlierTitle == <<"e">>
EarlierStats == [count |-> 1, label |-> "Items", subtitle |-> Omitted]
EarlierItems ==
    <<[href |-> NoLink, title |-> Untitled, date |-> Omitted, description |-> Omitted]>>

RenderIdle ==
    /\ xmlDoc = Document(Elem("html", <<>>))
    /\ displayed = FALSE

RenderInit ==
    /\ xmlDoc \in WellFormedDocs
    /\ displayed = FALSE
    /\ loadingHidden = FALSE
    /\ errorHidden = TRUE
    /\ errorText = ""
    /\ resultsHidden = TRUE
    /\ \/ feedTitle = <<>> /\ feedStats = NoStats /\ feedItems = <<>>
       \/ feedTitle = EarlierTitle /\ feedStats = EarlierStats
          /\ feedItems = EarlierItems

Display ==
    /\ ~displayed
    /\ displayed' = TRUE
    /\ displayFeed(xmlDoc)
    /\ UNCHANGED <<xmlDoc, loadingHidden>>

(***************************************************************************)
(* fetchRssFeed.  Each call is one run of the async function: it resets    *)
(* the page, awaits fetch(), then awaits the body of the response, and     *)
(* settles in one step.  Calls overlap while they wait.                    *)
(***************************************************************************)
VARIABLES fetches

uiVars == <<fetches>>

\* the number of calls of fetchRssFeed that can wait at the same time
MaxFetches == 2

Calls == 1..MaxFetches

\* a call that is not running: it has not started, or it has settled with
\* this outcome
NotRunning(outcome) ==
    [pc |-> "idle", status |-> 0, outcome |-> outcome, overtaken |-> FALSE,
     overlapped |-> FALSE]

\* a call waiting at an await; overtaken: another call has rendered a feed
\* since this one has reset the page; overlapped: another call has been
\* waiting while this one was
Waiting(at, status, overtaken) ==
    [pc |-> at, status |-> status, outcome |-> "none", overtaken |-> overtaken,
     overlapped |-> FALSE]

\* some call other than f is waiting
OthersWaiting(f) == \E g \in Calls \ {f} : fetches[g].pc # "idle"

EmptyUrlMessage == "Please enter a valid RSS feed URL"
ParseErrorMessage == "Failed to parse RSS feed. Invalid XML format."

\* rssUrlInput.value
InputValues == { <<>>, <<" ">>, <<"w">>, <<" ", "w", " ">> }

\* response.status of the proxy's answers
Statuses == {200, 400, 404, 503}

\* response.ok
Ok(status) == status \in 200..299

\* error.message of a rejected fetch() or of a body that cannot be read
RejectionMessages == { "Failed to fetch" }

\* error.message of response.json() on a body that is not JSON
JsonErrorMessages == { "Unexpected token < in JSON at position 0" }

\* the body of an error answer, parsed: its message, "" when it has none
ErrorData == { [message |-> "Invalid URL format"], [message |-> ""] }

UiRssDoc ==
    RssDoc(<<Leaf("title", FeedTitleText)>>,
           <<Elem("item", <<Leaf("title", EntryTitleText), Leaf("link", LinkUrl)>>)>>)

UiAtomDoc == AtomDoc(<<Leaf("title", FeedTitleText)>>, <<>>)

UiOtherDoc == Document(Elem("html", <<>>))

\* the text of a body: whether it is well-formed XML, and its tree (what was
\* read of it before the first error when it is not)
XmlTexts ==
    { [wellFormed |-> TRUE, tree |-> d] : d \in {UiRssDoc, UiAtomDoc, UiOtherDoc} }
    \cup { [wellFormed |-> FALSE, tree |-> UiRssDoc] }

\* parser.parseFromString(xmlText, 'text/xml'): the tree of a well-formed
\* text; for any other text a document that holds a parsererror element,
\* as its root or inside what was parsed, depending on the browser
parseFromString(xmlText) ==
    IF xmlText.wellFormed THEN {xmlText.tree}
    ELSE { Document(Elem("parsererror", <<>>)),
           Document(Elem(RootOf(xmlText.tree).name,
                         <<Elem("parsererror", <<>>)>> \o RootOf(xmlText.tree).kids)) }

UiIdle == fetches = [f \in Calls |-> NotRunning("none")]

UiInit == UiIdle

\* what a call that has read its body settles with: the document holds the
\* error marker, or a channel or feed element, or neither
DocKind(doc) ==
    IF querySelector(doc, "parsererror") # Null THEN "parseError"
    ELSE IF querySelector(doc, "channel") # Null \/ querySelector(doc, "feed") # Null
    THEN "rendered"
    ELSE "unrecognized"

\* call f settles with outcome; a feed it has rendered overtakes the calls
\* that are waiting
Settle(f, outcome) ==
    fetches' = [g \in Calls |->
                   IF g = f THEN NotRunning(outcome)
                   ELSE IF outcome = "rendered" /\ fetches[g].pc # "idle"
                   THEN [fetches[g] EXCEPT !.overtaken = TRUE]
                   ELSE fetches[g]]

\* the catch block without the finally block after it
CatchNoFinally(f, message, outcome) ==
    /\ showError("Error: " \o message)
    /\ Settle(f, outcome)
    /\ UNCHANGED <<loadingHidden, resultsHidden, feedTitle, feedStats, feedItems>>

\* catch (error) { showError(`Error: ${error.message}`) } finally { hideLoading() }
Catch(f, message, outcome) ==
    /\ showError("Error: " \o message)
    /\ loadingHidden' = TRUE
    /\ Settle(f, outcome)
    /\ UNCHANGED <<resultsHidden, feedTitle, feedStats, feedItems>>

\* the call up to its first await
FetchRssFeed(f, value) ==
    /\ fetches[f].pc = "idle"
    /\ IF Trim(value) = <<>>
       THEN /\ showError(EmptyUrlMessage)
            /\ UNCHANGED <<fetches, loadingHidden, resultsHidden,
                           feedTitle, feedStats, feedItems>>
       ELSE /\ errorHidden' = TRUE
            /\ resultsHidden' = TRUE
            /\ loadingHidden' = FALSE
            /\ fetches' = [g \in Calls |->
                               IF g = f
                               THEN [Waiting("fetch", 0, FALSE)
                                         EXCEPT !.overlapped = OthersWaiting(f)]
                               ELSE IF fetches[g].pc # "idle"
                               THEN [fetches[g] EXCEPT !.overlapped = TRUE]
                               ELSE fetches[g]]
            /\ UNCHANGED <<errorText, feedTitle, feedStats, feedItems>>

\* fetch() is fulfilled: the call goes on to read the body
FetchResolves(f, status) ==
    /\ fetches[f].pc = "fetch"
    /\ fetches' = [fetches EXCEPT ![f].pc = IF Ok(status) THEN "text" ELSE "json",
                                   ![f].status = status]
    /\ UNCHANGED pageVars

\* fetch() is rejected
FetchRejects(f, message) ==
    /\ fetches[f].pc = "fetch"
    /\ Catch(f, message, "networkError")

\* response.json() is fulfilled
JsonResolves(f, errorData) ==
    /\ fetches[f].pc = "json"
    /\ Catch(f, IF errorData.message # "" THEN errorData.message
                ELSE "HTTP " \o ToString(fetches[f].status), "httpError")

\* response.json() is rejected
JsonRejects(f, message) ==
    /\ fetches[f].pc = "json"
    /\ Catch(f, message, "unreadableBody")

\* the step after response.text() that renders whatever was parsed
TextResolvesUnchecked(f, xmlText, doc) ==
    /\ fetches[f].pc = "text"
    /\ doc \in parseFromString(xmlText)
    /\ displayFeed(doc)
    /\ loadingHidden' = TRUE
    /\ Settle(f, DocKind(doc))

\* the step after response.text() with every message passed through the catch
TextResolvesAllCaught(f, xmlText, doc) ==
    /\ fetches[f].pc = "text"
    /\ doc \in parseFromString(xmlText)
    /\ IF querySelector(doc, "parsererror") # Null
       THEN Catch(f, ParseErrorMessage, DocKind(doc))
       ELSE IF querySelector(doc, "channel") = Null
               /\ querySelector(doc, "feed") = Null
       THEN Catch(f, UnrecognizedMessage, DocKind(doc))
       ELSE /\ displayFeed(doc)
            /\ loadingHidden' = TRUE
            /\ Settle(f, DocKind(doc))

\* response.text() is fulfilled: parse, check for the error marker, display
TextResolves(f, xmlText, doc) ==
    /\ fetches[f].pc = "text"
    /\ doc \in parseFromString(xmlText)
    /\ IF querySelector(doc, "parsererror") # Null
       THEN Catch(f, ParseErrorMessage, DocKind(doc))
       ELSE /\ displayFeed(doc)
            /\ loadingHidden' = TRUE
            /\ Settle(f, DocKind(doc))

\* response.text() is rejected
TextRejects(f, message) ==
    /\ fetches[f].pc = "text"
    /\ Catch(f, message, "unreadableBody")

(***************************************************************************)
(* The saved feeds.  The list is kept in localStorage under the key        *)
(* 'savedRssFeeds' as JSON text, read back on every use, and shown as a    *)
(* list of buttons.                                                        *)
(***************************************************************************)
VARIABLES rssUrl, storage, savedFeedsHidden, savedFeedsList, op

savedVars == <<rssUrl, storage, savedFeedsHidden, savedFeedsList, op>>

InvalidUrlMessage == "Please enter a valid RSS feed URL"
AlreadySavedMessage == "This feed is already saved."

\* "https://b"
HttpsUrl == <<"h","t","t","p","s",":","/","/","b">>
\* "http://a/"q": a double quote is allowed in a path
QuoteUrl == <<"h","t","t","p",":","/","/","a","/","\"","q">>
\* " http://a ", which differs from "http://a" by the spaces around it only
SpacedUrl == <<" ">> \o HttpUrl \o <<" ">>

\* what is typed into the input before Save is clicked
TypedValues ==
    { <<>>, <<" ">>, HttpUrl, SpacedUrl, HttpsUrl, QuoteUrl, FtpUrl, NoSchemeUrl }

\* JSON.stringify of a string
JsonEscapeChar(c) ==
    CASE c = "\"" -> <<"\\", "\"">>
      [] c = "\\" -> <<"\\", "\\">>
      [] c = "\t" -> <<"\\", "t">>
      [] c = "\n" -> <<"\\", "n">>
      [] c = "\r" -> <<"\\", "r">>
      [] OTHER -> <<c>>

RECURSIVE JsonEscape(_)
JsonEscape(s) ==
    IF s = <<>> THEN <<>> ELSE JsonEscapeChar(Head(s)) \o JsonEscape(Tail(s))

JsonString(s) == <<"\"">> \o JsonEscape(s) \o <<"\"">>

RECURSIVE JsonElements(_)
JsonElements(feeds) ==
    IF feeds = <<>> THEN <<>>
    ELSE IF Len(feeds) = 1 THEN JsonString(feeds[1])
    ELSE JsonString(Head(feeds)) \o <<",">> \o JsonElements(Tail(feeds))

\* JSON.stringify of an array of strings
JsonStringify(feeds) == <<"[">> \o JsonElements(feeds) \o <<"]">>

JsonWhitespace == {" ", "\t", "\n", "\r"}

JsonStart == [mode |-> "start", items |-> <<>>, cur |-> <<>>]

JsonFail(q) == [q EXCEPT !.mode = "error"]

\* one character of JSON text, for the texts that are an array of strings;
\* a text that begins with another value is "other", a text that is no JSON
\* is an "error"
JsonStep(q, c) ==
    CASE q.mode = "string" ->
             IF c = "\"" THEN [mode |-> "after", items |-> Append(q.items, q.cur),
                               cur |-> <<>>]
             ELSE IF c = "\\" THEN [q EXCEPT !.mode = "escape"]
             ELSE IF c \in {"\t", "\n", "\r"} THEN JsonFail(q)
             ELSE [q EXCEPT !.cur = Append(q.cur, c)]
      [] q.mode = "escape" ->
             IF c \in {"\"", "\\", "/"}
             THEN [q EXCEPT !.mode = "string", !.cur = Append(q.cur, c)]
             ELSE IF c = "t" THEN [q EXCEPT !.mode = "string", !.cur = Append(q.cur, "\t")]
             ELSE IF c = "n" THEN [q EXCEPT !.mode = "string", !.cur = Append(q.cur, "\n")]
             ELSE IF c = "r" THEN [q EXCEPT !.mode = "string", !.cur = Append(q.cur, "\r")]
             ELSE JsonFail(q)
      [] q.mode \in {"error", "other"} -> q
      [] c \in JsonWhitespace -> q
      [] q.mode = "start" ->
             IF c = "[" THEN [q EXCEPT !.mode = "open"]
             ELSE [q EXCEPT !.mode = "other"]
      [] q.mode = "open" ->
             IF c = "\"" THEN [q EXCEPT !.mode = "string"]
             ELSE IF c = "]" THEN [q EXCEPT !.mode = "end"]
             ELSE JsonFail(q)
      [] q.mode = "after" ->
             IF c = "," THEN [q EXCEPT !.mode = "comma"]
             ELSE IF c = "]" THEN [q EXCEPT !.mode = "end"]
             ELSE JsonFail(q)
      [] q.mode = "comma" ->
             IF c = "\"" THEN [q EXCEPT !.mode = "string"] ELSE JsonFail(q)
      [] OTHER -> JsonFail(q)

RECURSIVE JsonRun(_, _, _)
JsonRun(text, i, q) ==
    IF i > Len(text) THEN q ELSE JsonRun(text, i + 1, JsonStep(q, text[i]))

\* JSON.parse: the array of strings the text stands for, or that the text is
\* another value or makes JSON.parse throw
JsonParse(text) ==
    LET q == JsonRun(text, 1, JsonStart)
    IN  IF q.mode = "end" THEN [isArray |-> TRUE, value |-> q.items]
        ELSE [isArray |-> FALSE, value |-> <<>>]

\* the characters encodeURIComponent leaves as they are
UriUnreserved ==
    AsciiAlpha \cup AsciiDigit \cup {"-", "_", ".", "!", "~", "*", "'", "(", ")"}

\* the hexadecimal code of the other characters of the inputs
PercentCodes ==
    { <<" ", <<"2","0">>>>, <<"\"", <<"2","2">>>>, <<"%", <<"2","5">>>>,
      <<"&", <<"2","6">>>>, <<"/", <<"2","F">>>>, <<":", <<"3","A">>>>,
      <<"<", <<"3","C">>>>, <<">", <<"3","E">>>> }

RECURSIVE encodeURIComponent(_)
encodeURIComponent(s) ==
    IF s = <<>> THEN <<>>
    ELSE (IF Head(s) \in UriUnreserved THEN <<Head(s)>>
          ELSE <<"%">> \o (CHOOSE p \in PercentCodes : p[1] = Head(s))[2])
         \o encodeURIComponent(Tail(s))

\* decodeURIComponent; a '%' that no code follows makes it throw
RECURSIVE decodeURIComponent(_)
decodeURIComponent(s) ==
    IF s = <<>> THEN [threw |-> FALSE, text |-> <<>>]
    ELSE IF Head(s) # "%"
    THEN LET rest == decodeURIComponent(Tail(s))
         IN  [rest EXCEPT !.text = <<Head(s)>> \o rest.text]
    ELSE IF Len(s) >= 3 /\ \E p \in PercentCodes : p[2] = SubSeq(s, 2, 3)
    THEN LET rest == decodeURIComponent(SubSeq(s, 4, Len(s)))
         IN  [rest EXCEPT !.text =
                  <<(CHOOSE p \in PercentCodes : p[2] = SubSeq(s, 2, 3))[1]>>
                      \o rest.text]
    ELSE [threw |-> TRUE, text |-> <<>>]

\* the value of a double-quoted attribute written into innerHTML: it ends at
\* the first double quote (no '&' is left by encodeURIComponent)
AttributeValue(markup) == SubSeq(markup, 1, FirstIn(markup, {"\""}, 1) - 1)

\* any URL that new URL(url) accepts
isValidFeedUrlAnyScheme(url) == UrlParses(url)

\* new URL(url) does not throw and its protocol is 'http:' or 'https:'
isValidFeedUrl(url) ==
    UrlParses(url) /\ SchemeOf(Preprocess(url)) \in HttpSchemes

\* localStorage: whether it can be used at all, and the item of SAVED_FEEDS_KEY
NoItem(available) == [available |-> available, present |-> FALSE, raw |-> <<>>]

Includes(feeds, url) == \E i \in 1..Len(feeds) : feeds[i] = url

NotBlank(url) == Trim(url) # <<>>

\* readSavedFeeds on that localStorage
readSavedFeeds(store) ==
    IF ~store.available THEN <<>>
    ELSE IF ~store.present \/ store.raw = <<>> THEN <<>>
    ELSE LET parsed == JsonParse(store.raw)
         IN  IF ~parsed.isArray THEN <<>>
             ELSE SelectSeq(parsed.value, NotBlank)

\* setItem throws when localStorage cannot be used, and may throw when the
\* quota is exceeded
MayFail(fails) == ~storage.available => fails

\* writeSavedFeeds: the exception of setItem is ignored
writeSavedFeeds(feeds, fails) ==
    storage' = IF fails THEN storage
               ELSE [storage EXCEPT !.present = TRUE, !.raw = JsonStringify(feeds)]

\* the buttons of one saved feed
SavedFeedButtons(url) ==
    [dataUrl |-> AttributeValue(encodeURIComponent(url)), label |-> escapeHtml(url)]

\* what renderSavedFeeds shows for that list
RenderedList(savedFeeds) ==
    [i \in 1..Len(savedFeeds) |-> SavedFeedButtons(savedFeeds[i])]

\* renderSavedFeeds, after the write
renderSavedFeeds ==
    LET savedFeeds == readSavedFeeds(storage')
    IN  /\ savedFeedsHidden' = (savedFeeds = <<>>)
        /\ savedFeedsList' = RenderedList(savedFeeds)

\* what the last handler did: its name, the URL it saved or removed, whether
\* it called setItem, whether setItem threw, whether the handler let it escape
Did(name, url, wrote, failed, threw) ==
    [name |-> name, url |-> url, wrote |-> wrote, failed |-> failed, threw |-> threw]

SavedIdle ==
    /\ rssUrl = <<>>
    /\ storage = NoItem(TRUE)
    /\ savedFeedsHidden = TRUE
    /\ savedFeedsList = <<>>
    /\ op = Did("none", <<>>, FALSE, FALSE, FALSE)

\* the page after its script has run, nothing saved yet
SavedInit ==
    /\ rssUrl = <<>>
    /\ storage \in { NoItem(TRUE), NoItem(FALSE) }
    /\ savedFeedsHidden = TRUE
    /\ savedFeedsList = <<>>
    /\ op = Did("none", <<>>, FALSE, FALSE, FALSE)

\* the user edits the input
TypeUrl(value) ==
    /\ rssUrl' = value
    /\ op' = Did("type", <<>>, FALSE, FALSE, FALSE)
    /\ UNCHANGED <<storage, savedFeedsHidden, savedFeedsList, pageVars>>

\* the new feed after the saved ones
WithNewestLast(url, savedFeeds) == savedFeeds \o <<url>>

\* [url, ...savedFeeds]
WithNewest(url, savedFeeds) == <<url>> \o savedFeeds

\* the checks without the one for a feed that is saved already
SaveCheckNoDuplicates(url, savedFeeds) ==
    IF url = <<>> \/ ~isValidFeedUrl(url) THEN "invalid" ELSE "save"

\* the checks of saveCurrentFeed
SaveCheck(url, savedFeeds) ==
    IF url = <<>> \/ ~isValidFeedUrl(url) THEN "invalid"
    ELSE IF Includes(savedFeeds, url) THEN "duplicate"
    ELSE "save"

\* saveCurrentFeed with a writeSavedFeeds that lets the exception through
SaveCurrentFeedUncaught(fails) ==
    LET url == Trim(rssUrl)
        savedFeeds == readSavedFeeds(storage)
        check == SaveCheck(url, savedFeeds)
    IN  /\ MayFail(fails)
        /\ IF check # "save"
           THEN /\ showError(IF check = "invalid" THEN InvalidUrlMessage
                             ELSE AlreadySavedMessage)
                /\ op' = Did("save", url, FALSE, FALSE, FALSE)
                /\ UNCHANGED <<storage, savedFeedsHidden, savedFeedsList>>
           ELSE /\ writeSavedFeeds(WithNewest(url, savedFeeds), fails)
                /\ op' = Did("save", url, TRUE, fails, fails)
                /\ IF fails
                   THEN UNCHANGED <<errorHidden, errorText, savedFeedsHidden,
                                    savedFeedsList>>
                   ELSE /\ errorHidden' = TRUE
                        /\ UNCHANGED errorText
                        /\ renderSavedFeeds
        /\ UNCHANGED <<rssUrl, loadingHidden, resultsHidden, feedTitle, feedStats,
                       feedItems>>

\* a click on Save
SaveCurrentFeed(fails) ==
    LET url == Trim(rssUrl)
        savedFeeds == readSavedFeeds(storage)
        check == SaveCheck(url, savedFeeds)
    IN  /\ MayFail(fails)
        /\ IF check # "save"
           THEN /\ showError(IF check = "invalid" THEN InvalidUrlMessage
                             ELSE AlreadySavedMessage)
                /\ op' = Did("save", url, FALSE, FALSE, FALSE)
                /\ UNCHANGED <<storage, savedFeedsHidden, savedFeedsList>>
           ELSE /\ writeSavedFeeds(WithNewest(url, savedFeeds), fails)
                /\ op' = Did("save", url, TRUE, fails, FALSE)
                /\ errorHidden' = TRUE
                /\ UNCHANGED errorText
                /\ renderSavedFeeds
        /\ UNCHANGED <<rssUrl, loadingHidden, resultsHidden, feedTitle, feedStats,
                       feedItems>>

\* the feeds that stay when urlToRemove is removed
Without(urlToRemove, savedFeeds) ==
    LET Other(url) == url # urlToRemove
    IN  SelectSeq(savedFeeds, Other)

\* removeSavedFeed(urlToRemove)
removeSavedFeed(urlToRemove, fails) ==
    /\ MayFail(fails)
    /\ writeSavedFeeds(Without(urlToRemove, readSavedFeeds(storage)), fails)
    /\ renderSavedFeeds
    /\ op' = Did("remove", urlToRemove, TRUE, fails, FALSE)
    /\ UNCHANGED <<rssUrl, pageVars>>

\* a click on the Remove button of the i-th saved feed
ClickRemove(i, fails) ==
    /\ i \in 1..Len(savedFeedsList)
    /\ LET url == decodeURIComponent(savedFeedsList[i].dataUrl)
       IN  /\ ~url.threw
           /\ url.text # <<>>
           /\ removeSavedFeed(url.text, fails)

\* a click on the i-th saved feed: it is put into the input and fetched by
\* call f
ClickSavedFeed(i, f) ==
    /\ i \in 1..Len(savedFeedsList)
    /\ LET url == decodeURIComponent(savedFeedsList[i].dataUrl)
       IN  /\ ~url.threw
           /\ url.text # <<>>
           /\ rssUrl' = url.text
           /\ FetchRssFeed(f, url.text)
           /\ op' = Did("open", <<>>, FALSE, FALSE, FALSE)
           /\ UNCHANGED <<storage, savedFeedsHidden, savedFeedsList>>

\* clearResults
ClearResults ==
    /\ rssUrl' = <<>>
    /\ resultsHidden' = TRUE
    /\ errorHidden' = TRUE
    /\ op' = Did("clear", <<>>, FALSE, FALSE, FALSE)
    /\ UNCHANGED <<storage, savedFeedsHidden, savedFeedsList, loadingHidden,
                   errorText, feedTitle, feedStats, feedItems>>

vars == <<proxyVars, textVars, pageVars, renderVars, uiVars, savedVars>>

(***************************************************************************)
(* Properties of the renderer.                                             *)
(***************************************************************************)
\* the element of that name that is the root of doc or a child of the root
TopLevel(doc, name) ==
    IF RootOf(doc).name = name THEN <<RootOf(doc)>>
    ELSE FirstOf(HasName(name, RootOf(doc).kids))

RenderedAsRss ==
    ~resultsHidden /\ errorHidden /\ feedStats.label = "Items"
    /\ feedStats.count = Len(feedItems)

RenderedAsAtom ==
    ~resultsHidden /\ errorHidden /\ feedStats.label = "Entries"
    /\ feedStats.count = Len(feedItems)

\* C11: format detection looks for a top-level channel first and a top-level
\* feed second: a document with a top-level channel is rendered as RSS, one
\* with a top-level feed and no top-level channel as Atom, also when a channel
\* occurs only deeper inside it, and one with neither gets the error
\* 'Unrecognized feed format. ...' and no results.
C11_TopLevelDetection ==
    displayed =>
        IF TopLevel(xmlDoc, "channel") # Null THEN RenderedAsRss
        ELSE IF TopLevel(xmlDoc, "feed") # Null THEN RenderedAsAtom
        ELSE ~errorHidden /\ errorText = UnrecognizedMessage /\ resultsHidden

\* the text of the child of e of that name, undefined when there is none
ChildText(e, name) ==
    LET found == HasName(name, e.kids)
    IN  IF found = <<>> THEN Undefined
        ELSE [given |-> TRUE, text |-> found[1].text]

\* the item and entry elements of a generated feed, in document order
ItemsOf(doc) == HasName("item", RootOf(doc).kids[1].kids)
EntriesOf(doc) == HasName("entry", RootOf(doc).kids)

\* C14: a well-formed RSS document with N item elements is rendered as exactly
\* N entries in document order, with count N and label 'Items'; an Atom
\* document with N entry elements as N entries in document order, with count
\* N and label 'Entries'; N = 0 included.
C14_OneEntryPerItem ==
    displayed =>
        /\ xmlDoc \in RssDocs =>
               LET items == ItemsOf(xmlDoc)
               IN  /\ feedStats.count = Len(items)
                   /\ feedStats.label = "Items"
                   /\ Len(feedItems) = Len(items)
                   /\ \A i \in 1..Len(items) :
                          feedItems[i].title =
                              escapeHtml(Or(ChildText(items[i], "title"), Untitled))
        /\ xmlDoc \in AtomDocs =>
               LET entries == EntriesOf(xmlDoc)
               IN  /\ feedStats.count = Len(entries)
                   /\ feedStats.label = "Entries"
                   /\ Len(feedItems) = Len(entries)
                   /\ \A i \in 1..Len(entries) :
                          feedItems[i].title =
                              escapeHtml(Or(ChildText(entries[i], "title"), Untitled))

C14_Witness ==
    /\ displayed
    /\ xmlDoc \in RssDocs
    /\ Len(ItemsOf(xmlDoc)) = 2
    /\ feedStats.count = 2 /\ feedStats.label = "Items"
    /\ feedItems[1].title = escapeHtml(EntryTitleText)
    /\ feedItems[2].title = Untitled

\* the link element of an entry, Null when it has none
LinkOf(e) == FirstOf(HasName("link", e.kids))

\* C15: the link of a rendered Atom entry is the value of the href attribute
\* of the entry's link element, never the text of that element; the link of
\* a rendered RSS item is the text of its link element; when the element is
\* absent or the value is empty the link is '#'.
C15_LinkSource ==
    displayed =>
        /\ xmlDoc \in AtomDocs =>
               \A i \in 1..Len(EntriesOf(xmlDoc)) :
                   LET link == LinkOf(EntriesOf(xmlDoc)[i])
                   IN  feedItems[i].href =
                           IF link = Null \/ ~link[1].href.given
                              \/ link[1].href.text = <<>>
                           THEN NoLink
                           ELSE escapeHtml(link[1].href.text)
        /\ xmlDoc \in RssDocs =>
               \A i \in 1..Len(ItemsOf(xmlDoc)) :
                   LET link == LinkOf(ItemsOf(xmlDoc)[i])
                   IN  feedItems[i].href =
                           IF link = Null \/ link[1].text = <<>>
                           THEN NoLink
                           ELSE escapeHtml(link[1].text)

C15_Witness ==
    /\ displayed
    /\ xmlDoc \in AtomDocs
    /\ Len(EntriesOf(xmlDoc)) = 2
    /\ LinkOf(EntriesOf(xmlDoc)[1]) = <<LinkElem(QuotedUrl, OtherText)>>
    /\ feedItems[1].href = QuotedUrl
    /\ LinkOf(EntriesOf(xmlDoc)[2]) = <<Leaf("link", OtherText)>>
    /\ feedItems[2].href = NoLink

\* the channel or feed element the renderer works on
ContainerOf(doc) ==
    IF querySelector(doc, "channel") # Null THEN querySelector(doc, "channel")
    ELSE querySelector(doc, "feed")

C17_DirectChildTitle ==
    displayed /\ xmlDoc \in RssDocs \cup AtomDocs =>
        LET isRss == xmlDoc \in RssDocs
            container == IF isRss THEN RootOf(xmlDoc).kids[1] ELSE RootOf(xmlDoc)
            subtitle == ChildText(container, IF isRss THEN "description" ELSE "subtitle")
        IN  /\ feedTitle = Or(ChildText(container, "title"),
                              IF isRss THEN RssFallbackTitle ELSE AtomFallbackTitle)
            /\ feedStats.subtitle = IF Falsy(subtitle) THEN Omitted
                                    ELSE Inserted(escapeHtml(subtitle.text))

\* no character that ends a text node or a quoted attribute value is left
Encoded(markup) == Chars(markup) \cap {"<", ">", "\"", "'"} = {}

\* C20: every string of the feed that the renderer inserts into markup (the
\* subtitle, the entry title, the entry link inside the double-quoted href
\* attribute, the entry body) is escaped so that each of &, <, > and the
\* quote characters is encoded: a link with a double quote in it cannot end
\* the href attribute.
C20_QuotesEncoded ==
    displayed /\ ~resultsHidden =>
        /\ feedStats.subtitle.given => Encoded(feedStats.subtitle.text)
        /\ \A i \in 1..Len(feedItems) :
               /\ Encoded(feedItems[i].href)
               /\ Encoded(feedItems[i].title)
               /\ feedItems[i].description.given =>
                      Encoded(feedItems[i].description.text)

\* no character that opens or closes a tag is left
NoMarkup(markup) == Chars(markup) \cap {"<", ">"} = {}

\* C21: the markup that displayRss and displayAtom produce holds no '<' or
\* '>' that comes from the feed: what escapeHtml and stripHtml return (the
\* subtitle, the link, the title, the body) has none, and the formatted
\* date, the one value inserted without escapeHtml, has none and is not the
\* raw string of the feed.
C21_NoFeedMarkup ==
    displayed /\ ~resultsHidden =>
        /\ feedStats.subtitle.given => NoMarkup(feedStats.subtitle.text)
        /\ \A i \in 1..Len(feedItems) :
               /\ NoMarkup(feedItems[i].href)
               /\ NoMarkup(feedItems[i].title)
               /\ feedItems[i].description.given =>
                      NoMarkup(feedItems[i].description.text)
               /\ feedItems[i].date.given =>
                      /\ NoMarkup(feedItems[i].date.text)
                      /\ feedItems[i].date.text # MarkupText

\* an item with markup in its title, its body and its date has been rendered
C21_Witness ==
    /\ displayed /\ ~resultsHidden
    /\ xmlDoc \in RssDocs
    /\ Len(ItemsOf(xmlDoc)) = 2
    /\ ChildText(ItemsOf(xmlDoc)[1], "title").text = EntryTitleText
    /\ ChildText(ItemsOf(xmlDoc)[1], "description").text = BodyHtml
    /\ feedItems[1].title = <<"t", "&", "l", "t", ";">>
    /\ feedItems[1].description = Inserted(<<"d">>)
    /\ feedItems[1].date = Inserted(FormattedDate)
    /\ ChildText(ItemsOf(xmlDoc)[2], "pubDate").text = MarkupText
    /\ feedItems[2].date = Inserted(InvalidDate)

(***************************************************************************)
(* Properties of fetchRssFeed.                                             *)
(***************************************************************************)
\* in this step call f settles with outcome
Settles(f, outcome) ==
    fetches[f].pc # "idle" /\ fetches'[f] = NotRunning(outcome)

resultsContent == <<feedTitle, feedStats, feedItems>>

C13_RenderErrorsVerbatim ==
    [][\A f \in Calls :
          /\ Settles(f, "parseError") =>
                 errorText' = ParseErrorMessage /\ ~errorHidden'
          /\ Settles(f, "unrecognized") =>
                 errorText' = UnrecognizedMessage /\ ~errorHidden']_vars

\* C13, amended: when the fetch settles with a render-side error the error
\* slot is visible; for UnrecognizedFormat its text is exactly the message of
\* the error, for ParseError it is 'Error: ' followed by the message.
C13_RenderErrorsShown ==
    [][\A f \in Calls :
          /\ Settles(f, "parseError") =>
                 errorText' = "Error: " \o ParseErrorMessage /\ ~errorHidden'
          /\ Settles(f, "unrecognized") =>
                 errorText' = UnrecognizedMessage /\ ~errorHidden']_vars

C13_Witness ==
    /\ fetches[1] = NotRunning("parseError")
    /\ fetches[2] = NotRunning("unrecognized")
    /\ errorText = UnrecognizedMessage
    /\ ~errorHidden

\* call f passes its checks and goes to wait for fetch()
Starts(f) == fetches[f].pc = "idle" /\ fetches'[f].pc = "fetch"

\* call f settles, with whatever outcome
Ends(f) == fetches[f].pc # "idle" /\ fetches'[f].pc = "idle"

InFlight(f) == fetches[f].pc # "idle"

\* C27: a fetch started with an input that is not blank hides the error
\* message and the results panel and shows the loading indicator before the
\* network call is made; whatever its outcome, the loading indicator is
\* hidden when it settles; and, the network call and the reading of the body
\* settling, every fetch that was started reaches a state where it has
\* settled and the loading indicator is hidden.
C27_LoadingHiddenInTheEnd ==
    /\ [][\A f \in Calls :
              /\ Starts(f) => errorHidden' /\ resultsHidden' /\ ~loadingHidden'
              /\ Ends(f) => loadingHidden']_vars
    /\ \A f \in Calls : InFlight(f) ~> (~InFlight(f) /\ loadingHidden)

\* a call has settled with each kind of outcome in turn; here the second one
\* could not read the body of an error answer, and loading is hidden
C27_Witness ==
    /\ fetches[1].outcome = "rendered"
    /\ fetches[2].outcome = "unreadableBody"
    /\ \A f \in Calls : ~InFlight(f)
    /\ loadingHidden

\* C28: when a second fetch is started before the first has settled, the one
\* that settles last wins: once both have settled, the display is what that
\* fetch would have produced alone, which is the error message shown and the
\* results panel hidden when it failed, and the error message hidden and the
\* results panel shown with its feed when it succeeded.
C28_LastSettledWins ==
    [][\A f \in Calls :
          Ends(f) /\ fetches[f].overlapped /\ ~OthersWaiting(f) =>
              IF fetches'[f].outcome = "rendered"
              THEN errorHidden' /\ ~resultsHidden'
              ELSE ~errorHidden' /\ resultsHidden']_vars

\* C29: in every state where a fetch has been started and has not settled,
\* the loading indicator is visible, also when another fetch that overlapped
\* with it has settled already.
C29_LoadingShownWhileFetching ==
    (\E f \in Calls : InFlight(f)) => ~loadingHidden

\* C30: in every state reached by any interleaving of fetches (with a blank
\* input or not), their settlements, saves, removes and clears, the error
\* message and the results panel are not both visible.
C30_ErrorOrResults == ~(~errorHidden /\ ~resultsHidden)

(***************************************************************************)
(* Properties of the saved feeds.                                          *)
(***************************************************************************)
\* the persisted list
SavedFeeds == readSavedFeeds(storage)

NoDuplicates(feeds) ==
    \A i, j \in 1..Len(feeds) : feeds[i] = feeds[j] => i = j

\* C23: from an empty list, after any sequence of save and remove actions,
\* whatever was typed (the same URL twice, URLs that differ by the spaces
\* around them only), the persisted list holds no URL more than once.
C23_NoDuplicates == NoDuplicates(SavedFeeds)

\* "http://a" is saved, " http://a " has been typed and Save clicked
C23_Witness ==
    /\ rssUrl = SpacedUrl
    /\ op.name = "save" /\ op.url = HttpUrl
    /\ Len(SavedFeeds) = 3
    /\ Includes(SavedFeeds, HttpUrl)
    /\ ~errorHidden /\ errorText = AlreadySavedMessage

\* the step is the handler of that name
Handler(name) == op'.name = name

\* the URL is one that Save turns down
TurnedDown(url, feeds) ==
    \/ url = <<>>
    \/ ~UrlParses(url)
    \/ SchemeOf(Preprocess(url)) \notin HttpSchemes
    \/ Includes(feeds, url)

\* C24: a save whose trimmed URL is empty, is no absolute URL, has a scheme
\* other than http and https, or is in the list already leaves the persisted
\* list as it was and calls no storage write.
C24_RejectedSaveWritesNothing ==
    [][Handler("save") /\ TurnedDown(Trim(rssUrl), SavedFeeds) =>
           /\ storage' = storage
           /\ readSavedFeeds(storage') = SavedFeeds
           /\ ~op'.wrote]_vars

\* Save was clicked on "ftp://a" with two feeds saved, and nothing was written
C24_Witness ==
    /\ op = Did("save", FtpUrl, FALSE, FALSE, FALSE)
    /\ rssUrl = FtpUrl
    /\ Len(SavedFeeds) = 2
    /\ ~errorHidden /\ errorText = InvalidUrlMessage

\* C25 as stated: a successful save of a valid URL u that is not in the list
\* L yields u followed by L; remove(u) yields L without any occurrence of u,
\* the others in their order, which is L when u is not in it.
C25_SaveThenRemove ==
    [][/\ Handler("save") /\ ~TurnedDown(Trim(rssUrl), SavedFeeds) /\ ~op'.failed =>
           readSavedFeeds(storage') = <<Trim(rssUrl)>> \o SavedFeeds
       /\ Handler("remove") =>
           /\ readSavedFeeds(storage') = Without(op'.url, SavedFeeds)
           /\ ~Includes(SavedFeeds, op'.url) => readSavedFeeds(storage') = SavedFeeds
      ]_vars

\* C25, amended: a save of a valid URL u that is not in the list L, whose
\* write succeeds, yields u followed by L; a remove(u) whose write succeeds
\* yields L without any occurrence of u, the others in their order, which is
\* L when u is not in it; when the write fails, the list stays L.
C25_SaveThenRemoveWritten ==
    [][/\ Handler("save") /\ ~TurnedDown(Trim(rssUrl), SavedFeeds) =>
           readSavedFeeds(storage') =
               IF op'.failed THEN SavedFeeds ELSE <<Trim(rssUrl)>> \o SavedFeeds
       /\ Handler("remove") =>
           /\ readSavedFeeds(storage') =
                  IF op'.failed THEN SavedFeeds ELSE Without(op'.url, SavedFeeds)
           /\ ~Includes(SavedFeeds, op'.url) => readSavedFeeds(storage') = SavedFeeds
      ]_vars

\* the URL with the quote was saved last, before the two others
C25_Witness ==
    /\ op = Did("save", QuoteUrl, TRUE, FALSE, FALSE)
    /\ SavedFeeds = <<QuoteUrl, HttpsUrl, HttpUrl>>
    /\ savedFeedsList = RenderedList(SavedFeeds)

ProxySpecInit == ProxyInit /\ TextIdle /\ PageInit /\ RenderIdle /\ UiIdle /\ SavedIdle

ProxySpecNext ==
    \/ \E r \in Requests, url \in QueryValues :
           Handle(r, url) /\ UNCHANGED <<textVars, pageVars, renderVars, uiVars, savedVars>>
    \/ \E r \in Requests, response \in UpstreamResponses :
           Resolve(r, response) /\ UNCHANGED <<textVars, pageVars, renderVars, uiVars, savedVars>>
    \/ \E r \in Requests, error \in Errors :
           Reject(r, error) /\ UNCHANGED <<textVars, pageVars, renderVars, uiVars, savedVars>>

ProxySpec == ProxySpecInit /\ [][ProxySpecNext]_vars

TextSpecInit == ProxyInit /\ TextInit /\ PageInit /\ RenderIdle /\ UiIdle /\ SavedIdle

TextSpecNext ==
    \/ EscapeHtmlCall /\ UNCHANGED <<proxyVars, pageVars, renderVars, uiVars, savedVars>>
    \/ StripHtmlCall /\ UNCHANGED <<proxyVars, pageVars, renderVars, uiVars, savedVars>>
    \/ FormatDateCall /\ UNCHANGED <<proxyVars, pageVars, renderVars, uiVars, savedVars>>

TextSpec == TextSpecInit /\ [][TextSpecNext]_vars

RenderSpecInit == ProxyInit /\ TextIdle /\ RenderInit /\ UiIdle /\ SavedIdle

RenderSpecNext ==
    \/ Display /\ UNCHANGED <<proxyVars, textVars, uiVars, savedVars>>

RenderSpec == RenderSpecInit /\ [][RenderSpecNext]_vars

UiSpecInit == ProxyInit /\ TextIdle /\ PageInit /\ RenderIdle /\ UiInit /\ SavedIdle

UiSpecNext ==
    \/ \E f \in Calls, value \in InputValues :
           FetchRssFeed(f, value) /\ UNCHANGED <<proxyVars, textVars, renderVars, savedVars>>
    \/ \E f \in Calls, status \in Statuses :
           FetchResolves(f, status) /\ UNCHANGED <<proxyVars, textVars, renderVars, savedVars>>
    \/ \E f \in Calls, message \in RejectionMessages :
           FetchRejects(f, message) /\ UNCHANGED <<proxyVars, textVars, renderVars, savedVars>>
    \/ \E f \in Calls, errorData \in ErrorData :
           JsonResolves(f, errorData) /\ UNCHANGED <<proxyVars, textVars, renderVars, savedVars>>
    \/ \E f \in Calls, message \in JsonErrorMessages :
           JsonRejects(f, message) /\ UNCHANGED <<proxyVars, textVars, renderVars, savedVars>>
    \/ \E f \in Calls, xmlText \in XmlTexts : \E doc \in parseFromString(xmlText) :
           TextResolves(f, xmlText, doc) /\ UNCHANGED <<proxyVars, textVars, renderVars, savedVars>>
    \/ \E f \in Calls, message \in RejectionMessages :
           TextRejects(f, message) /\ UNCHANGED <<proxyVars, textVars, renderVars, savedVars>>

UiSpec == UiSpecInit /\ [][UiSpecNext]_vars

\* the promise of fetch() of call f is settled
FetchSettles(f) ==
    /\ \/ \E status \in Statuses : FetchResolves(f, status)
       \/ \E message \in RejectionMessages : FetchRejects(f, message)
    /\ UNCHANGED <<proxyVars, textVars, renderVars, savedVars>>

\* the promise of response.json() or response.text() of call f is settled,
\* and the rest of the function runs
BodySettles(f) ==
    /\ \/ \E errorData \in ErrorData : JsonResolves(f, errorData)
       \/ \E message \in JsonErrorMessages : JsonRejects(f, message)
       \/ \E xmlText \in XmlTexts : \E doc \in parseFromString(xmlText) : TextResolves(f, xmlText, doc)
       \/ \E message \in RejectionMessages : TextRejects(f, message)
    /\ UNCHANGED <<proxyVars, textVars, renderVars, savedVars>>

\* the fetches under the assumption that every promise a call awaits is
\* settled in the end, and that the event loop then runs the continuation
UiFairSpec ==
    /\ UiSpecInit
    /\ [][UiSpecNext]_vars
    /\ \A f \in Calls : WF_vars(FetchSettles(f) \/ BodySettles(f))

\* the URLs that can be saved
SavedUrls == { HttpUrl, HttpsUrl, QuoteUrl }

SavedSpecInit == ProxyInit /\ TextIdle /\ PageInit /\ RenderIdle /\ UiIdle /\ SavedInit

SavedSpecNext ==
    \/ \E value \in TypedValues :
           TypeUrl(value) /\ UNCHANGED <<proxyVars, textVars, renderVars, uiVars>>
    \/ \E fails \in BOOLEAN :
           SaveCurrentFeed(fails) /\ UNCHANGED <<proxyVars, textVars, renderVars, uiVars>>
    \/ \E i \in 1..Cardinality(SavedUrls), fails \in BOOLEAN :
           ClickRemove(i, fails) /\ UNCHANGED <<proxyVars, textVars, renderVars, uiVars>>
    \/ \E urlToRemove \in SavedUrls, fails \in BOOLEAN :
           removeSavedFeed(urlToRemove, fails)
               /\ UNCHANGED <<proxyVars, textVars, renderVars, uiVars>>
    \/ ClearResults /\ UNCHANGED <<proxyVars, textVars, renderVars, uiVars>>

SavedSpec == SavedSpecInit /\ [][SavedSpecNext]_vars

\* what is typed into the input of the whole page
AppValues == { <<>>, HttpUrl }

AppSpecInit == ProxyInit /\ TextIdle /\ PageInit /\ RenderIdle /\ UiInit /\ SavedIdle

\* the handlers of the page: the fetches work on what is in the input
AppSpecNext ==
    \/ \E value \in AppValues :
           TypeUrl(value) /\ UNCHANGED <<proxyVars, textVars, renderVars, uiVars>>
    \/ \E f \in Calls :
           FetchRssFeed(f, rssUrl) /\ UNCHANGED <<proxyVars, textVars, renderVars, savedVars>>
    \/ \E f \in Calls : FetchSettles(f)
    \/ \E f \in Calls : BodySettles(f)
    \/ \E fails \in BOOLEAN :
           SaveCurrentFeed(fails) /\ UNCHANGED <<proxyVars, textVars, renderVars, uiVars>>
    \/ \E i \in 1..Cardinality(SavedUrls), fails \in BOOLEAN :
           ClickRemove(i, fails) /\ UNCHANGED <<proxyVars, textVars, renderVars, uiVars>>
    \/ \E i \in 1..Cardinality(SavedUrls), f \in Calls :
           ClickSavedFeed(i, f) /\ UNCHANGED <<proxyVars, textVars, renderVars>>
    \/ ClearResults /\ UNCHANGED <<proxyVars, textVars, renderVars, uiVars>>

AppSpec == AppSpecInit /\ [][AppSpecNext]_vars

====
